---------------------------- MODULE Spec2Model ----------------------------
(***************************************************************************)
(* Model of the rigging module: BoneMapper (bone-name classification and   *)
(* renaming of skeleton bones and animation tracks), FBXValidator and the  *)
(* two page components that drive them (App.init, RiggingTest.init), then  *)
(* CharacterLoader.playAnimation, the frame loop of CharacterRenderer and   *)
(* the effect, key handlers and attack timer of RiggingTest.                *)
(*                                                                         *)
(* Bone and track names are strings.  TLC evaluates Len, Head, Tail,       *)
(* SubSeq and \o on strings, so names are matched character by character.  *)
(***************************************************************************)
EXTENDS Naturals, Integers, Sequences, FiniteSets, TLC

VARIABLES
    bones,      \* mesh.skeleton.bones: sequence of [uuid, name]
    clips,      \* character.animations: sequence of [name, tracks]
    mapping,    \* Map<string,string> held by the caller, in insertion order
    validation, \* what validateBones returned, when it was the last call
    snap,       \* history: bones and clips as they were when mapping was built
    once,       \* history: bones after the first applyMapping with mapping
    applied,    \* history: applyMapping calls made with the current mapping
    animated,   \* history: applyMappingToAnimations calls made with it
    stats,      \* what getBoneStatistics returned, when it was called
    fbx,        \* the loaded THREE.Group: scene nodes and animations
    reports,    \* the FBXValidationResult of every validateFBXGroup call so far
    page,       \* the mounted component: "App" or "RiggingTest"
    pc,         \* where its init() stands
    trace,      \* history: the calls init() has made, in order
    error,      \* the message given to setError, "" when none
    runs,         \* one record per run of the effect of RiggingTest
    renderers,    \* the CharacterRenderer each run created
    characters,   \* the CharacterAsset objects loadCharacter returned
    characterRef, \* characterRef.current: index in characters, 0 for null
    loaderRef,    \* loaderRef.current: the run that set it, 0 for null
    isAttacking,  \* isAttacking.current
    keysPressed,  \* the keys k with keysPressed.current[k] = true
    timers,       \* pending timers set by triggerAttack
    nextFrameId,  \* the id the next requestAnimationFrame returns
    call          \* history: the last call made on the CharacterLoader

mapperVars ==
    <<bones, clips, mapping, validation, snap, once, applied, animated, stats>>
validatorVars == <<fbx, reports>>
pageVars == <<page, pc, trace, error>>
harnessVars ==
    <<runs, renderers, characters, characterRef, loaderRef, isAttacking,
      keysPressed, timers, nextFrameId, call>>

vars == <<mapperVars, validatorVars, pageVars, harnessVars>>

-----------------------------------------------------------------------------
(* Strings *)

UpperCase == <<"A","B","C","D","E","F","G","H","I","J","K","L","M",
               "N","O","P","Q","R","S","T","U","V","W","X","Y","Z">>
LowerCase == <<"a","b","c","d","e","f","g","h","i","j","k","l","m",
               "n","o","p","q","r","s","t","u","v","w","x","y","z">>

\* Canonicalisation of one character under the regex flag i.
CanonChar(c) ==
    IF \E k \in 1..Len(UpperCase) : UpperCase[k] = c
    THEN LowerCase[CHOOSE k \in 1..Len(UpperCase) : UpperCase[k] = c]
    ELSE c

RECURSIVE Canon(_)
Canon(s) == IF s = "" THEN "" ELSE CanonChar(Head(s)) \o Canon(Tail(s))

\* String.prototype.indexOf(c) for a one-character c, 0-based; -1 when absent.
indexOf(s, c) ==
    IF \E i \in 1..Len(s) : SubSeq(s, i, i) = c
    THEN (CHOOSE i \in 1..Len(s) :
            /\ SubSeq(s, i, i) = c
            /\ \A j \in 1..(i-1) : SubSeq(s, j, j) # c) - 1
    ELSE -1

\* String.prototype.toLowerCase and includes.
toLowerCase(s) == Canon(s)
includes(s, w) ==
    \E i \in 1..(Len(s) - Len(w) + 1) : SubSeq(s, i, i + Len(w) - 1) = w

\* String.prototype.substring(from, to) and substring(from), 0-based.
substring(s, from, to) == SubSeq(s, from + 1, to)
substringFrom(s, from) == SubSeq(s, from + 1, Len(s))

-----------------------------------------------------------------------------
(* Regular expressions: the constructs BONE_PATTERNS uses *)

Lit(w)    == [t |-> "lit", w |-> w]          \* literal text
Alt(rs)   == [t |-> "alt", rs |-> rs]        \* a|b|c
Cat(rs)   == [t |-> "cat", rs |-> rs]        \* concatenation
DotStar   == [t |-> "dotstar"]               \* .*
NotAhead(r) == [t |-> "nla", r |-> r]        \* (?!r)
Opt(r)    == [t |-> "opt", r |-> r]          \* r?
Class(cs) == [t |-> "class", cs |-> cs]      \* [..]
Bol       == [t |-> "bol"]                   \* ^
Eol       == [t |-> "eol"]                   \* $

\* Ends(r, s, i): the positions right after a match of r that starts at
\* position i of s (1-based; Len(s)+1 is the end of the string).
RECURSIVE Ends(_, _, _)
RECURSIVE EndsCat(_, _, _, _)
Ends(r, s, i) ==
    CASE r.t = "lit" ->
            IF i + Len(r.w) - 1 <= Len(s) /\ SubSeq(s, i, i + Len(r.w) - 1) = r.w
            THEN {i + Len(r.w)} ELSE {}
      [] r.t = "alt" -> UNION {Ends(r.rs[k], s, i) : k \in DOMAIN r.rs}
      [] r.t = "cat" -> EndsCat(r.rs, 1, s, i)
      [] r.t = "dotstar" -> i..(Len(s) + 1)
      [] r.t = "nla" -> IF Ends(r.r, s, i) = {} THEN {i} ELSE {}
      [] r.t = "opt" -> {i} \cup Ends(r.r, s, i)
      [] r.t = "class" ->
            IF i <= Len(s) /\ SubSeq(s, i, i) \in r.cs THEN {i + 1} ELSE {}
      [] r.t = "bol" -> IF i = 1 THEN {i} ELSE {}
      [] r.t = "eol" -> IF i = Len(s) + 1 THEN {i} ELSE {}
EndsCat(rs, k, s, i) ==
    IF k > Len(rs) THEN {i}
    ELSE UNION {EndsCat(rs, k + 1, s, j) : j \in Ends(rs[k], s, i)}

\* Variant of RegExpTest without flag i.
RegExpTestCaseSensitive(r, s) ==
    \E i \in 1..(Len(s) + 1) : Ends(r, s, i) # {}

\* RegExp.prototype.test with flag i and without flag g: a match may start
\* anywhere, the pattern's literals are lower case already.
RegExpTest(r, s) ==
    LET cs == Canon(s) IN \E i \in 1..(Len(cs) + 1) : Ends(r, cs, i) # {}

-----------------------------------------------------------------------------
(* BoneMapper: the constant tables *)

\* Object.values(STANDARD_BONES), in declaration order.
STANDARD_BONES ==
    << "Hips", "Spine", "Spine1", "Spine2", "Chest", "Neck", "Head",
       "LeftShoulder", "LeftArm", "LeftForeArm", "LeftHand",
       "RightShoulder", "RightArm", "RightForeArm", "RightHand",
       "LeftHip", "LeftLeg", "LeftFoot", "LeftToe",
       "RightHip", "RightLeg", "RightFoot", "RightToe" >>

\* (w1|w2|...): an alternation of literal words.
Words(ws) == Alt([k \in DOMAIN ws |-> Lit(ws[k])])

\* ^( ... )$
Exact(r) == Cat(<<Bol, r, Eol>>)

\* The rule table, in priority order (the first matching rule is used).
BONE_PATTERNS ==
    << \* root
       [pattern |-> Exact(Alt(<<Lit("armature"), Lit("root"), Lit("hips"),
                                Cat(<<Lit("mixamorig"), Opt(Class({":", "_"})),
                                      Lit("hips")>>)>>)),
        target |-> "Hips"],
       [pattern |-> Words(<<"hips", "root", "armature">>), target |-> "Hips"],
       \* spine, exact
       [pattern |-> Exact(Words(<<"spine2", "mixamorig:spine2">>)),
        target |-> "Spine2"],
       [pattern |-> Exact(Words(<<"spine1", "mixamorig:spine1">>)),
        target |-> "Spine1"],
       [pattern |-> Exact(Words(<<"spine", "mixamorig:spine">>)),
        target |-> "Spine"],
       \* spine, loose
       [pattern |-> Words(<<"spine2", "torso2", "chest2">>), target |-> "Spine2"],
       [pattern |-> Words(<<"spine1", "torso1", "chest1">>), target |-> "Spine1"],
       [pattern |-> Words(<<"spine", "chest", "torso", "upperback", "lowerback">>),
        target |-> "Spine"],
       \* neck and head
       [pattern |-> Words(<<"neck", "mixamorig:neck">>), target |-> "Neck"],
       [pattern |-> Words(<<"head", "mixamorig:head">>), target |-> "Head"],
       \* left arm
       [pattern |-> Alt(<<Cat(<<Lit("left"), DotStar, Lit("shoulder")>>),
                          Lit("leftshoulder"), Lit("l_shoulder"),
                          Lit("mixamorig:leftshoulder")>>),
        target |-> "LeftShoulder"],
       [pattern |-> Cat(<<Alt(<<Cat(<<Lit("left"), DotStar, Lit("arm"),
                                      NotAhead(Lit("fur"))>>),
                                Lit("leftarm"), Lit("l_arm"),
                                Lit("mixamorig:leftarm")>>),
                          NotAhead(Lit("forearm"))>>),
        target |-> "LeftArm"],
       [pattern |-> Alt(<<Cat(<<Lit("left"), DotStar, Lit("forearm")>>),
                          Lit("leftforearm"), Lit("l_forearm"),
                          Lit("mixamorig:leftforearm")>>),
        target |-> "LeftForeArm"],
       [pattern |-> Alt(<<Cat(<<Lit("left"), DotStar, Lit("hand")>>),
                          Lit("lefthand"), Lit("l_hand"),
                          Lit("mixamorig:lefthand")>>),
        target |-> "LeftHand"],
       \* right arm
       [pattern |-> Alt(<<Cat(<<Lit("right"), DotStar, Lit("shoulder")>>),
                          Lit("rightshoulder"), Lit("r_shoulder"),
                          Lit("mixamorig:rightshoulder")>>),
        target |-> "RightShoulder"],
       [pattern |-> Cat(<<Alt(<<Cat(<<Lit("right"), DotStar, Lit("arm"),
                                      NotAhead(Lit("fur"))>>),
                                Lit("rightarm"), Lit("r_arm"),
                                Lit("mixamorig:rightarm")>>),
                          NotAhead(Lit("forearm"))>>),
        target |-> "RightArm"],
       [pattern |-> Alt(<<Cat(<<Lit("right"), DotStar, Lit("forearm")>>),
                          Lit("rightforearm"), Lit("r_forearm"),
                          Lit("mixamorig:rightforearm")>>),
        target |-> "RightForeArm"],
       [pattern |-> Alt(<<Cat(<<Lit("right"), DotStar, Lit("hand")>>),
                          Lit("righthand"), Lit("r_hand"),
                          Lit("mixamorig:righthand")>>),
        target |-> "RightHand"],
       \* left leg
       [pattern |-> Alt(<<Cat(<<Lit("left"), DotStar, Lit("hip")>>),
                          Lit("lefthip"), Lit("leftupleg"), Lit("l_hip"),
                          Lit("l_upleg"), Lit("mixamorig:leftupleg")>>),
        target |-> "LeftHip"],
       [pattern |-> Cat(<<Alt(<<Cat(<<Lit("left"), DotStar, Lit("leg"),
                                      NotAhead(Lit("upleg"))>>),
                                Lit("leftleg"), Lit("l_leg"),
                                Lit("mixamorig:leftleg")>>),
                          NotAhead(Lit("upleg"))>>),
        target |-> "LeftLeg"],
       [pattern |-> Alt(<<Cat(<<Lit("left"), DotStar, Lit("foot")>>),
                          Lit("leftfoot"), Lit("l_foot"),
                          Lit("mixamorig:leftfoot")>>),
        target |-> "LeftFoot"],
       [pattern |-> Alt(<<Cat(<<Lit("left"), DotStar, Lit("toe")>>),
                          Lit("lefttoe"), Lit("l_toe"),
                          Lit("mixamorig:lefttoe")>>),
        target |-> "LeftToe"],
       \* right leg
       [pattern |-> Alt(<<Cat(<<Lit("right"), DotStar, Lit("hip")>>),
                          Lit("righthip"), Lit("rightupleg"), Lit("r_hip"),
                          Lit("r_upleg"), Lit("mixamorig:rightupleg")>>),
        target |-> "RightHip"],
       [pattern |-> Cat(<<Alt(<<Cat(<<Lit("right"), DotStar, Lit("leg"),
                                      NotAhead(Lit("upleg"))>>),
                                Lit("rightleg"), Lit("r_leg"),
                                Lit("mixamorig:rightleg")>>),
                          NotAhead(Lit("upleg"))>>),
        target |-> "RightLeg"],
       [pattern |-> Alt(<<Cat(<<Lit("right"), DotStar, Lit("foot")>>),
                          Lit("rightfoot"), Lit("r_foot"),
                          Lit("mixamorig:rightfoot")>>),
        target |-> "RightFoot"],
       [pattern |-> Alt(<<Cat(<<Lit("right"), DotStar, Lit("toe")>>),
                          Lit("righttoe"), Lit("r_toe"),
                          Lit("mixamorig:righttoe")>>),
        target |-> "RightToe"] >>

-----------------------------------------------------------------------------
(* Bone names the model draws skeletons from *)

\* Names of the conventions the rule table is written for (canonical,
\* Mixamo with and without separator, L_/R_ abbreviations, generic rigs).
ConventionNames ==
    { "mixamorigHips", "mixamorigSpine", "mixamorigSpine1", "mixamorigSpine2",
      "mixamorigNeck", "mixamorigHead", "mixamorigHeadTop_End",
      "mixamorigLeftShoulder", "mixamorigLeftArm", "mixamorigLeftForeArm",
      "mixamorigLeftHand", "mixamorigLeftHandIndex1",
      "mixamorigRightShoulder", "mixamorigRightArm", "mixamorigRightForeArm",
      "mixamorigRightHand",
      "mixamorigLeftUpLeg", "mixamorigLeftLeg", "mixamorigLeftFoot",
      "mixamorigLeftToeBase",
      "mixamorigRightUpLeg", "mixamorigRightLeg", "mixamorigRightFoot",
      "mixamorigRightToeBase",
      "mixamorig:Hips", "mixamorig_Hips", "mixamorig:Spine", "mixamorig:Spine1",
      "mixamorig:Spine2", "mixamorig:LeftArm", "mixamorig:LeftForeArm",
      "mixamorig:LeftUpLeg", "mixamorig:LeftLeg",
      "Armature", "Root", "root", "HIPS", "hips", "SPINE1", "spine", "spine2",
      "Hips.001", "RootNode", "Torso", "Torso1", "Chest2", "LowerBack",
      "UpperBack", "Forehead",
      "LeftUpLeg", "RightUpLeg", "LeftUpperLeg", "RightUpperLeg",
      "L_UpLeg", "R_UpLeg", "L_Hip", "L_Leg", "R_Leg", "l_leg",
      "L_Arm", "R_Arm", "L_ForeArm", "R_ForeArm", "L_Hand", "L_Shoulder",
      "L_Foot", "R_Toe", "LeftArmFur", "LeftLegUpLeg", "Left_Arm",
      "LeftLowerArm", "RightLowerLeg" }

\* Names no rule is written for.
OtherNames == { "", "Tail", "Jaw", "Bone.001", "Weapon", "Prop", "LArm" }

BoneNames ==
    {STANDARD_BONES[k] : k \in DOMAIN STANDARD_BONES}
        \cup ConventionNames \cup OtherNames
-----------------------------------------------------------------------------
(* Map<string, string>: a sequence of <<key, value>> in insertion order *)

EmptyMap == << >>
MapKeys(m) == {m[k][1] : k \in DOMAIN m}
MapHas(m, key) == key \in MapKeys(m)
MapGet(m, key) == m[CHOOSE k \in DOMAIN m : m[k][1] = key][2]
\* Map.prototype.set: an existing key keeps its place.
MapSet(m, key, value) ==
    IF MapHas(m, key)
    THEN [k \in DOMAIN m |-> IF m[k][1] = key THEN <<key, value>> ELSE m[k]]
    ELSE Append(m, <<key, value>>)

-----------------------------------------------------------------------------
(* BoneMapper.autoMapBones *)

\* Variant of MatchFrom without the break: the loop runs to the end of the
\* table and the last matching rule overwrites the earlier ones.
RECURSIVE MatchFromNoBreak(_, _)
MatchFromNoBreak(boneName, k) ==
    IF k > Len(BONE_PATTERNS) THEN 0
    ELSE LET later == MatchFromNoBreak(boneName, k + 1) IN
         IF later # 0 THEN later
         ELSE IF RegExpTest(BONE_PATTERNS[k].pattern, boneName) THEN k
         ELSE 0

\* The loop over BONE_PATTERNS from rule k on, left at the first rule whose
\* pattern tests true (break): the index of that rule, 0 when the loop ends
\* without a match.
RECURSIVE MatchFrom(_, _)
MatchFrom(boneName, k) ==
    IF k > Len(BONE_PATTERNS) THEN 0
    ELSE IF RegExpTest(BONE_PATTERNS[k].pattern, boneName) THEN k
    ELSE MatchFrom(boneName, k + 1)

\* Variant of MatchBone that walks the table from its last rule to its first.
RECURSIVE MatchDownFrom(_, _)
MatchDownFrom(boneName, k) ==
    IF k = 0 THEN 0
    ELSE IF RegExpTest(BONE_PATTERNS[k].pattern, boneName) THEN k
    ELSE MatchDownFrom(boneName, k - 1)

MatchBoneLooseFirst(boneName) == MatchDownFrom(boneName, Len(BONE_PATTERNS))

\* The rule autoMapBones uses for one bone name, 0 when it uses none.
MatchBone(boneName) == MatchFrom(boneName, 1)

\* MatchBone tabulated over the names of the model (the table is evaluated
\* once; the patterns are constant and test keeps no state without flag g).
MatchedRule == [n \in BoneNames |-> MatchBone(n)]

\* Variant of AutoMapFrom that gives every target to the first bone reaching
\* it only.
RECURSIVE AutoMapFromOncePerTarget(_, _, _)
AutoMapFromOncePerTarget(bs, i, m) ==
    IF i > Len(bs) THEN m
    ELSE LET boneName == bs[i].name
             k == MatchedRule[boneName]
         IN AutoMapFromOncePerTarget(bs, i + 1,
                IF k # 0 /\ \A e \in DOMAIN m : m[e][2] # BONE_PATTERNS[k].target
                THEN MapSet(m, boneName, BONE_PATTERNS[k].target)
                ELSE m)

\* Variant of AutoMapFrom that stores the target in lower case.
RECURSIVE AutoMapFromLowerCase(_, _, _)
AutoMapFromLowerCase(bs, i, m) ==
    IF i > Len(bs) THEN m
    ELSE LET boneName == bs[i].name
             k == MatchedRule[boneName]
         IN AutoMapFromLowerCase(bs, i + 1,
                IF k # 0
                THEN MapSet(m, boneName, toLowerCase(BONE_PATTERNS[k].target))
                ELSE m)

\* bones.forEach(...) from bone i on, with the mapping built so far.
RECURSIVE AutoMapFrom(_, _, _)
AutoMapFrom(bs, i, m) ==
    IF i > Len(bs) THEN m
    ELSE LET boneName == bs[i].name
             k == MatchedRule[boneName]
         IN AutoMapFrom(bs, i + 1,
                IF k # 0 THEN MapSet(m, boneName, BONE_PATTERNS[k].target)
                ELSE m)

autoMapBones(bs) == AutoMapFrom(bs, 1, EmptyMap)

-----------------------------------------------------------------------------
(* BoneMapper.applyMapping, applyMappingToAnimations *)

\* findBoneByName: the index of the first bone of that name, 0 for null.
findBoneByName(bs, name) ==
    IF \E i \in DOMAIN bs : bs[i].name = name
    THEN CHOOSE i \in DOMAIN bs :
            /\ bs[i].name = name
            /\ \A j \in 1..(i - 1) : bs[j].name # name
    ELSE 0

\* mapping.forEach(...) from entry k on.
RECURSIVE ApplyFrom(_, _, _)
ApplyFrom(bs, m, k) ==
    IF k > Len(m) THEN bs
    ELSE LET originalName == m[k][1]
             standardName == m[k][2]
             bone == findBoneByName(bs, originalName)
         IN ApplyFrom(IF bone # 0
                      THEN [bs EXCEPT ![bone].name = standardName]
                      ELSE bs,
                      m, k + 1)

\* Variant of applyMapping that adds a bone of the standard name when it
\* finds no bone of the original name.
RECURSIVE ApplyOrCreateFrom(_, _, _)
ApplyOrCreateFrom(bs, m, k) ==
    IF k > Len(m) THEN bs
    ELSE LET bone == findBoneByName(bs, m[k][1]) IN
         ApplyOrCreateFrom(IF bone # 0
                           THEN [bs EXCEPT ![bone].name = m[k][2]]
                           ELSE Append(bs, [uuid |-> Len(bs) + 1, name |-> m[k][2]]),
                           m, k + 1)

applyMappingOrCreate(bs, m) == ApplyOrCreateFrom(bs, m, 1)

applyMapping(bs, m) == ApplyFrom(bs, m, 1)

\* Variant of RenameTrack that takes a track name without "." as a bone name.
RenameTrackWholeName(trackName, m) ==
    LET dotIndex == indexOf(trackName, ".")
        boneName == IF dotIndex = -1 THEN trackName
                    ELSE substring(trackName, 0, dotIndex)
        property == IF dotIndex = -1 THEN ""
                    ELSE substringFrom(trackName, dotIndex)
    IN IF MapHas(m, boneName) THEN MapGet(m, boneName) \o property
       ELSE trackName

\* Variant of RenameTrack that splits at the last "." (lastIndexOf).
RenameTrackLastDot(trackName, m) ==
    LET dots == {i \in 1..Len(trackName) : SubSeq(trackName, i, i) = "."} IN
    IF dots = {} THEN trackName
    ELSE LET dotIndex == (CHOOSE i \in dots : \A j \in dots : j <= i) - 1
             boneName == substring(trackName, 0, dotIndex)
             property == substringFrom(trackName, dotIndex)
         IN IF MapHas(m, boneName) THEN MapGet(m, boneName) \o property
            ELSE trackName

\* The body of clip.tracks.forEach for one track name.
RenameTrack(trackName, m) ==
    LET dotIndex == indexOf(trackName, ".") IN
    IF dotIndex = -1 THEN trackName
    ELSE LET boneName == substring(trackName, 0, dotIndex)
             property == substringFrom(trackName, dotIndex)
         IN IF MapHas(m, boneName) THEN MapGet(m, boneName) \o property
            ELSE trackName

applyMappingToAnimations(animations, m) ==
    [c \in DOMAIN animations |->
        [animations[c] EXCEPT
            !.tracks = [t \in DOMAIN animations[c].tracks |->
                           RenameTrack(animations[c].tracks[t], m)]]]

-----------------------------------------------------------------------------
(* BoneMapper.isStandardBone, validateBones *)

\* The elements of seq whose index is in S, from index i on, in order.
RECURSIVE Select(_, _, _)
Select(seq, S, i) ==
    IF i > Len(seq) THEN << >>
    ELSE (IF i \in S THEN <<seq[i]>> ELSE << >>) \o Select(seq, S, i + 1)

\* Array.prototype.includes and filter on sequences.
Includes(seq, x) == \E k \in DOMAIN seq : seq[k] = x

RECURSIVE FilterIn(_, _)
FilterIn(seq, keep) ==
    IF seq = << >> THEN << >>
    ELSE (IF Includes(keep, Head(seq)) THEN <<Head(seq)>> ELSE << >>)
            \o FilterIn(Tail(seq), keep)

RECURSIVE FilterNotIn(_, _)
FilterNotIn(seq, drop) ==
    IF seq = << >> THEN << >>
    ELSE (IF Includes(drop, Head(seq)) THEN << >> ELSE <<Head(seq)>>)
            \o FilterNotIn(Tail(seq), drop)

isStandardBone(boneName) == Includes(STANDARD_BONES, boneName)

requiredBones ==
    << "Hips", "Spine", "Head", "LeftArm", "RightArm", "LeftLeg", "RightLeg" >>

BoneNamesOf(bs) == [i \in DOMAIN bs |-> bs[i].name]

\* Variant of validateBones that compares names without case.
validateBonesAnyCase(bs) ==
    LET names == BoneNamesOf(bs)
        foundBones == Select(requiredBones,
                             {k \in DOMAIN requiredBones :
                                 \E i \in DOMAIN names :
                                     Canon(names[i]) = Canon(requiredBones[k])}, 1)
        missingBones == FilterNotIn(requiredBones, foundBones)
    IN [isValid |-> Len(missingBones) = 0,
        missingBones |-> missingBones,
        foundBones |-> foundBones]

validateBones(bs) ==
    LET foundBones == FilterIn(BoneNamesOf(bs), requiredBones)
        missingBones == FilterNotIn(requiredBones, foundBones)
    IN [isValid |-> Len(missingBones) = 0,
        missingBones |-> missingBones,
        foundBones |-> foundBones]

-----------------------------------------------------------------------------
(* getBoneStatistics *)

Digits == <<"0", "1", "2", "3", "4", "5", "6", "7", "8", "9">>

\* The decimal digits of a natural number.
RECURSIVE NatToString(_)
NatToString(n) ==
    IF n < 10 THEN Digits[n + 1]
    ELSE NatToString(n \div 10) \o Digits[(n % 10) + 1]

\* A JavaScript value: a number, kept in tenths, or a string.
NumberValue(tenths) == [type |-> "number", tenths |-> tenths]
StringValue(text) == [type |-> "string", text |-> text]

\* (num / den) * 100 in IEEE double arithmetic: the pairs with den <= 81 whose
\* exact percentage lies halfway between two tenths while the double computed
\* lies below it (28.749999999999996, 51.24999999999999, 63.74999999999999).
\* Every other halfway percentage of such a pair is computed exactly.
DoubleBelowHalfway == {<<23, 80>>, <<41, 80>>, <<51, 80>>}

\* ((num / den) * 100).toFixed(1): the digits of the double rounded to the
\* nearest tenth, the larger tenth when the double is exactly halfway; "NaN"
\* for 0 / 0.
toFixed1(num, den) ==
    IF den = 0 THEN StringValue("NaN")
    ELSE LET halfUp == (2000 * num + den) \div (2 * den)
             tenths == IF <<num, den>> \in DoubleBelowHalfway
                       THEN halfUp - 1
                       ELSE halfUp
         IN StringValue(NatToString(tenths \div 10) \o "."
                            \o Digits[(tenths % 10) + 1])

\* bones.filter(b => this.isStandardBone(b.name))
RECURSIVE StandardOf(_)
StandardOf(bs) ==
    IF bs = << >> THEN << >>
    ELSE (IF isStandardBone(Head(bs).name) THEN <<Head(bs)>> ELSE << >>)
            \o StandardOf(Tail(bs))

getBoneStatistics(bs) ==
    LET standardBones == StandardOf(bs) IN
    [totalBones |-> Len(bs),
     standardBones |-> Len(standardBones),
     nonStandardBones |-> Len(bs) - Len(standardBones),
     standardPercentage |-> toFixed1(Len(standardBones), Len(bs))]

-----------------------------------------------------------------------------
(* Inputs: the skeletons and animation clips the operations are run on *)

MaxBones == 2   \* longest skeleton drawn freely from CoreNames
MaxClips == 1   \* most animation clips of an asset
MaxApply == 2   \* most calls of applyMapping (and of applyMappingToAnimations)
                \* with one mapping

\* Names for the freely drawn skeletons: three conventions of the root, a
\* forearm in two conventions, an upper leg and a name of no convention.
CoreNames ==
    { "Root", "Hips", "mixamorigHips", "L_ForeArm", "LeftForeArm",
      "LeftUpperLeg", "Tail" }

\* A Mixamo export without separator, in skeleton order.
MixamoRig ==
    << "mixamorigHips", "mixamorigSpine", "mixamorigSpine1", "mixamorigSpine2",
       "mixamorigNeck", "mixamorigHead", "mixamorigHeadTop_End",
       "mixamorigLeftShoulder", "mixamorigLeftArm", "mixamorigLeftForeArm",
       "mixamorigLeftHand", "mixamorigLeftHandIndex1",
       "mixamorigRightShoulder", "mixamorigRightArm", "mixamorigRightForeArm",
       "mixamorigRightHand",
       "mixamorigLeftUpLeg", "mixamorigLeftLeg", "mixamorigLeftFoot",
       "mixamorigLeftToeBase",
       "mixamorigRightUpLeg", "mixamorigRightLeg", "mixamorigRightFoot",
       "mixamorigRightToeBase" >>

SeqsUpTo(S, n) == UNION {[1..k -> S] : k \in 0..n}

\* Arms named in three conventions at once, in both orders of the forearms,
\* and a head with its end bone.
MixedArms ==
    { <<"L_ForeArm", "LeftForeArm", "LeftArm">>,
      <<"LeftArm", "LeftForeArm", "L_ForeArm">>,
      <<"mixamorigHead", "mixamorigHeadTop_End", "Head">> }

\* The Mixamo names of the required bones, and such a skeleton with one more
\* Mixamo bone before or after them.
MixamoRequired ==
    << "mixamorigHips", "mixamorigSpine", "mixamorigHead", "mixamorigLeftArm",
       "mixamorigRightArm", "mixamorigLeftLeg", "mixamorigRightLeg" >>

MixamoOthers ==
    { "mixamorigLeftForeArm", "mixamorigLeftUpLeg", "mixamorigHeadTop_End",
      "mixamorigSpine1", "mixamorigLeftHandIndex1" }

MixamoSkeletons ==
    {MixamoRequired}
        \cup {<<o>> \o MixamoRequired : o \in MixamoOthers}
        \cup {MixamoRequired \o <<o>> : o \in MixamoOthers}

SkeletonNames ==
    SeqsUpTo(CoreNames, MaxBones)
        \cup {<<n>> : n \in BoneNames}
        \cup {Select(requiredBones, S, 1) : S \in SUBSET DOMAIN requiredBones}
        \cup {MixamoRig}
        \cup MixedArms
        \cup MixamoSkeletons

MkBones(names) == [i \in DOMAIN names |-> [uuid |-> i, name |-> names[i]]]

\* One position and one rotation track per bone, then one more track.
RECURSIVE BoneTracks(_)
BoneTracks(names) ==
    IF names = << >> THEN << >>
    ELSE <<Head(names) \o ".position", Head(names) \o ".quaternion">>
            \o BoneTracks(Tail(names))

\* The last track of a clip: of a bone that is not in the mapping, without
\* separator (malformed), and with a second separator after the bone name.
ExtraTracks == { "Tail.scale", "Root", "Root.001.position" }

\* Up to MaxClips clips of the same tracks (takes of one rig).
ClipsFor(names) ==
    {[c \in 1..k |-> [name |-> "mixamo.com", tracks |-> BoneTracks(names) \o <<x>>]] :
        k \in 0..MaxClips, x \in ExtraTracks}

-----------------------------------------------------------------------------
(* FBXValidator *)

REQUIRED_BONES ==
    << "Hips", "Spine", "Head", "LeftArm", "RightArm", "LeftLeg", "RightLeg" >>

MIN_BONE_COUNT == 20

\* One line of errors or warnings: its text and the values printed into it.
Line(text) == [text |-> text, nums |-> << >>, names |-> << >>]
LineNums(text, nums) == [text |-> text, nums |-> nums, names |-> << >>]
LineNames(text, names) == [text |-> text, nums |-> << >>, names |-> names]

\* fbx.traverse(...): the nodes are kept in traversal order; every
\* SkinnedMesh met is assigned to mesh.  The index of the mesh held at the
\* end, 0 for null.
RECURSIVE TraverseFrom(_, _, _)
TraverseFrom(nodes, i, mesh) ==
    IF i > Len(nodes) THEN mesh
    ELSE TraverseFrom(nodes, i + 1,
                      IF nodes[i].kind = "SkinnedMesh" THEN i ELSE mesh)

\* Box3.getSize: lengths are in hundredths of a unit, as toFixed(2) prints.
getSize(bbox) == [a \in 1..3 |-> bbox.max[a] - bbox.min[a]]

EmptyInfo ==
    [hasMesh |-> FALSE, meshType |-> "null", boneCount |-> 0,
     animationCount |-> 0, hasTextures |-> FALSE,
     meshSize |-> << >>, meshBounds |-> << >>]

Result(isValid, r) ==
    [isValid |-> isValid, errors |-> r.errors, warnings |-> r.warnings,
     info |-> r.info]

\* Variant of MeshSizeCheck whose error needs all three axes to be zero.
MeshSizeCheckAllAxes(mesh, r) ==
    LET size == getSize(mesh.bbox) IN
    [errors |-> r.errors \o
        (IF size[1] = 0 /\ size[2] = 0 /\ size[3] = 0
         THEN << Line("CRITICAL: Mesh has zero size in one or more dimensions"),
                 LineNums("Size", size) >>
         ELSE << >>),
     warnings |-> r.warnings \o
        (IF size[2] < 10
         THEN << Line("Mesh is very small (height < 0.1 units)"),
                 LineNums("Current size", size),
                 Line("Will be scaled up automatically") >>
         ELSE << >>),
     info |-> [r.info EXCEPT !.meshSize = size,
                             !.meshBounds = <<mesh.bbox.min, mesh.bbox.max>>]]

\* 2. mesh size
MeshSizeCheck(mesh, r) ==
    LET size == getSize(mesh.bbox) IN
    [errors |-> r.errors \o
        (IF size[1] = 0 \/ size[2] = 0 \/ size[3] = 0
         THEN << Line("CRITICAL: Mesh has zero size in one or more dimensions"),
                 LineNums("Size", size) >>
         ELSE << >>),
     warnings |-> r.warnings \o
        (IF size[2] < 10
         THEN << Line("Mesh is very small (height < 0.1 units)"),
                 LineNums("Current size", size),
                 Line("Will be scaled up automatically") >>
         ELSE << >>),
     info |-> [r.info EXCEPT !.meshSize = size,
                             !.meshBounds = <<mesh.bbox.min, mesh.bbox.max>>]]

\* Variant of BoneCountCheck that also refuses exactly MIN_BONE_COUNT bones.
BoneCountCheckInclusive(bs, r) ==
    [r EXCEPT !.errors = @ \o
        (IF Len(bs) <= MIN_BONE_COUNT
         THEN << LineNums("CRITICAL: Too few bones", <<Len(bs), MIN_BONE_COUNT>>),
                 Line("This model appears to be incomplete or corrupted"),
                 LineNums("Expected at least bones for a full character",
                          <<MIN_BONE_COUNT>>) >>
         ELSE << >>)]

\* bones.length < MIN_BONE_COUNT
BoneCountCheck(bs, r) ==
    [r EXCEPT !.errors = @ \o
        (IF Len(bs) < MIN_BONE_COUNT
         THEN << LineNums("CRITICAL: Too few bones", <<Len(bs), MIN_BONE_COUNT>>),
                 Line("This model appears to be incomplete or corrupted"),
                 LineNums("Expected at least bones for a full character",
                          <<MIN_BONE_COUNT>>) >>
         ELSE << >>)]

mixamoBones ==
    << "mixamorigHips", "mixamorigSpine", "mixamorigHead",
       "mixamorigLeftArm", "mixamorigRightArm",
       "mixamorigLeftUpLeg", "mixamorigRightUpLeg" >>

\* The names validateFBXGroup looks for in a skeleton of these names.
ExpectedBones(boneNames) ==
    IF \E k \in DOMAIN boneNames : includes(toLowerCase(boneNames[k]), "mixamorig")
    THEN mixamoBones
    ELSE REQUIRED_BONES

\* Array.prototype.slice(start, end) with 0 <= start <= end.
slice(arr, start, end) ==
    SubSeq(arr, start + 1, IF end < Len(arr) THEN end ELSE Len(arr))

\* 4. bone names
BoneNameCheck(bs, r) ==
    LET boneNames == BoneNamesOf(bs)
        missingBones == FilterNotIn(ExpectedBones(boneNames), boneNames)
    IN [r EXCEPT !.warnings = @ \o
        (IF Len(missingBones) > 0
         THEN << LineNames("Missing some expected bones",
                           slice(missingBones, 0, 3) \o
                               (IF Len(missingBones) > 3 THEN <<"...">> ELSE << >>)),
                 Line("Animation may not work correctly") >>
         ELSE << >>)]

\* Variant of AnimationCheck that reports a clipless asset as an error.
AnimationCheckBlocking(asset, r) ==
    LET count == IF asset.animations.defined THEN Len(asset.animations.list) ELSE 0 IN
    [r EXCEPT !.info.animationCount = count,
              !.errors = @ \o
                 (IF count = 0
                  THEN << Line("No animations found in FBX file"),
                          Line("Character will be static (T-pose)") >>
                  ELSE << >>)]

\* 5. animations: fbx.animations?.length || 0
AnimationCheck(asset, r) ==
    LET count == IF asset.animations.defined THEN Len(asset.animations.list) ELSE 0 IN
    [r EXCEPT !.info.animationCount = count,
              !.warnings = @ \o
                 (IF count = 0
                  THEN << Line("No animations found in FBX file"),
                          Line("Character will be static (T-pose)") >>
                  ELSE << >>)]

\* 6. textures
TextureCheck(mesh, r) ==
    IF mesh.material.present
    THEN LET materials == mesh.material.list
             hasTextures ==
                \E k \in DOMAIN materials :
                    /\ materials[k].cls \in {"MeshStandardMaterial", "MeshPhongMaterial"}
                    /\ materials[k].map
         IN [r EXCEPT !.info.hasTextures = hasTextures,
                      !.warnings = @ \o
                         (IF ~hasTextures
                          THEN << Line("No textures found"),
                                  Line("Character will use default material colors") >>
                          ELSE << >>)]
    ELSE r

PushErrors(r, lines) == [r EXCEPT !.errors = @ \o lines]

\* Variant of ValidateBonesOf whose verdict also asks for no warning.
ValidateBonesOfNoWarning(asset, mesh, r) ==
    LET bs == mesh.skeleton.bones
        r6 == TextureCheck(mesh,
                 AnimationCheck(asset,
                    BoneNameCheck(bs,
                       BoneCountCheck(bs, r))))
    IN Result(Len(r6.errors) = 0 /\ Len(r6.warnings) = 0, r6)

\* From bones.length < MIN_BONE_COUNT to the final verdict.
ValidateBonesOf(asset, mesh, r) ==
    LET bs == mesh.skeleton.bones
        r6 == TextureCheck(mesh,
                 AnimationCheck(asset,
                    BoneNameCheck(bs,
                       BoneCountCheck(bs, r))))
    IN Result(Len(r6.errors) = 0, r6)

\* Variant of ValidateSkeleton that records an empty skeleton and goes on.
ValidateSkeletonNoReturn(asset, mesh, r) ==
    LET bs == mesh.skeleton.bones
        r2 == [r EXCEPT !.info.boneCount = Len(bs)]
    IN ValidateBonesOf(asset, mesh,
          IF Len(bs) = 0
          THEN PushErrors(r2, << Line("CRITICAL: Skeleton has no bones") >>)
          ELSE r2)

\* From const bones = mesh.skeleton.bones on.
ValidateSkeleton(asset, mesh, r) ==
    LET bs == mesh.skeleton.bones
        r2 == [r EXCEPT !.info.boneCount = Len(bs)]
    IN IF Len(bs) = 0
       THEN Result(FALSE, PushErrors(r2, << Line("CRITICAL: Skeleton has no bones") >>))
       ELSE ValidateBonesOf(asset, mesh, r2)

\* From the mesh size check on, with the mesh found.
ValidateMesh(asset, mesh, r) ==
    LET r1 == MeshSizeCheck(mesh, r) IN
    IF ~mesh.skeleton.present
    THEN Result(FALSE, PushErrors(r1,
            << Line("CRITICAL: Mesh has no skeleton"),
               Line("This is not a rigged character") >>))
    ELSE ValidateSkeleton(asset, mesh, r1)

validateFBXGroup(asset) ==
    LET mesh == TraverseFrom(asset.nodes, 1, 0)
        r0 == [errors |-> << >>, warnings |-> << >>,
               info |-> IF mesh # 0
                        THEN [EmptyInfo EXCEPT !.hasMesh = TRUE,
                                               !.meshType = "SkinnedMesh"]
                        ELSE EmptyInfo]
    IN IF mesh = 0
       THEN Result(FALSE, PushErrors(r0,
               << Line("CRITICAL: No SkinnedMesh found in FBX file"),
                  Line("This file cannot be used for character rigging") >>))
       ELSE ValidateMesh(asset, asset.nodes[mesh], r0)

-----------------------------------------------------------------------------
(* Inputs: the loaded assets *)

NoValidation == [returned |-> FALSE]
NoStatistics == [returned |-> FALSE]

MaxReports == 2   \* most validateFBXGroup calls on one asset

NoSkeleton == [present |-> FALSE, bones |-> << >>]
NoMaterial == [present |-> FALSE, list |-> << >>]
NoAnimations == [defined |-> FALSE, list |-> << >>]
NoAsset == [nodes |-> << >>, animations |-> NoAnimations]

Box(size) == [min |-> <<0, 0, 0>>, max |-> size]

\* A node of the scene graph that is no SkinnedMesh (a Group, a Bone, a Mesh).
Node(kind) ==
    [kind |-> kind, skeleton |-> NoSkeleton, bbox |-> Box(<<0, 0, 0>>),
     material |-> NoMaterial]

SkinnedMesh(skeleton, size, material) ==
    [kind |-> "SkinnedMesh", skeleton |-> skeleton, bbox |-> Box(size),
     material |-> material]

\* Twenty bones, none with a required name and none in the Mixamo convention.
GenericRig ==
    FilterNotIn(STANDARD_BONES, requiredBones) \o <<"Tail", "Jaw", "Weapon", "Prop">>

\* Skeletons below, at and above MIN_BONE_COUNT, in both conventions.
AssetSkeletonNames ==
    { << >>, SubSeq(MixamoRig, 1, 1), SubSeq(MixamoRig, 1, 5),
      SubSeq(MixamoRig, 1, 19), SubSeq(MixamoRig, 1, 20),
      SubSeq(MixamoRig, 1, 21), MixamoRig,
      SubSeq(STANDARD_BONES, 1, 19), SubSeq(STANDARD_BONES, 2, 23),
      STANDARD_BONES, GenericRig }

AssetSkeletons ==
    {NoSkeleton} \cup
    {[present |-> TRUE, bones |-> MkBones(names)] : names \in AssetSkeletonNames}

\* Bounding-box sizes in hundredths of a unit: flat, lower than 0.1, full.
AssetSizes == {<<x, y, z>> : x \in {0, 180}, y \in {0, 5, 180}, z \in {0, 60}}

Material(cls, map) == [cls |-> cls, map |-> map]
AssetMaterials ==
    { NoMaterial,
      [present |-> TRUE, list |-> <<Material("MeshStandardMaterial", FALSE)>>],
      [present |-> TRUE, list |-> <<Material("MeshStandardMaterial", TRUE)>>],
      [present |-> TRUE, list |-> <<Material("MeshBasicMaterial", TRUE)>>],
      [present |-> TRUE, list |-> <<Material("MeshPhongMaterial", FALSE),
                                    Material("MeshPhongMaterial", TRUE)>>] }

AssetMeshes ==
    {SkinnedMesh(sk, size, mat) :
        sk \in AssetSkeletons, size \in AssetSizes, mat \in AssetMaterials}

\* A second SkinnedMesh earlier in the traversal: a bare one or a full one.
EarlierMeshes ==
    { SkinnedMesh(NoSkeleton, <<0, 0, 0>>, NoMaterial),
      SkinnedMesh([present |-> TRUE, bones |-> MkBones(STANDARD_BONES)],
                  <<180, 180, 60>>,
                  [present |-> TRUE,
                   list |-> <<Material("MeshStandardMaterial", TRUE)>>]) }

AssetNodes ==
    {<<Node("Group")>>}
        \cup {<<Node("Group"), m>> : m \in AssetMeshes}
        \cup {<<Node("Group"), e, Node("Bone"), m>> :
                 e \in EarlierMeshes, m \in AssetMeshes}

\* The skeleton whose names the tracks of the asset's clips carry.
RigOf(nodes) ==
    LET mesh == TraverseFrom(nodes, 1, 0) IN
    IF mesh = 0 THEN << >> ELSE BoneNamesOf(nodes[mesh].skeleton.bones)

AssetAnimations(nodes) ==
    {NoAnimations} \cup
    {[defined |-> TRUE,
      list |-> [c \in 1..k |-> [name |-> "mixamo.com",
                                tracks |-> BoneTracks(RigOf(nodes)) \o <<"Tail.scale">>]]] :
        k \in 0..MaxClips}

-----------------------------------------------------------------------------
(* FBXValidator.validateFBXGroup, called on one asset *)

IdleMapper ==
    /\ bones = << >>
    /\ clips = << >>
    /\ mapping = EmptyMap
    /\ validation = NoValidation
    /\ snap = [built |-> FALSE, bones |-> << >>, clips |-> << >>]
    /\ once = << >>
    /\ applied = 0
    /\ animated = 0
    /\ stats = NoStatistics

IdlePage ==
    /\ page = "none"
    /\ pc = "idle"
    /\ trace = << >>
    /\ error = ""

NoCall == [op |-> "none"]

IdleHarness ==
    /\ runs = << >>
    /\ renderers = << >>
    /\ characters = << >>
    /\ characterRef = 0
    /\ loaderRef = 0
    /\ isAttacking = FALSE
    /\ keysPressed = {}
    /\ timers = 0
    /\ nextFrameId = 1
    /\ call = NoCall

InitValidator ==
    /\ \E nodes \in AssetNodes :
          \E anims \in AssetAnimations(nodes) :
              fbx = [nodes |-> nodes, animations |-> anims]
    /\ reports = << >>
    /\ IdleMapper
    /\ IdlePage
    /\ IdleHarness

\* Variant of Returned in which errors and warnings are lists shared by all
\* calls: a report starts with the lines of the report before it.
ReturnedSharedLists(rs, asset) ==
    LET r == validateFBXGroup(asset)
        errors == (IF rs = << >> THEN << >> ELSE rs[Len(rs)].errors) \o r.errors
        warnings == (IF rs = << >> THEN << >> ELSE rs[Len(rs)].warnings) \o r.warnings
    IN Append(rs, [r EXCEPT !.errors = errors, !.warnings = warnings,
                            !.isValid = Len(errors) = 0])

\* The reports returned so far and the one of a further call: errors,
\* warnings and info are created by the call (const errors: string[] = []).
Returned(rs, asset) == Append(rs, validateFBXGroup(asset))

\* const validationResult = FBXValidator.validateFBXGroup(fbx)
ValidateFBXGroup ==
    /\ Len(reports) < MaxReports
    /\ reports' = Returned(reports, fbx)
    /\ UNCHANGED fbx

NextValidator ==
    ValidateFBXGroup /\ UNCHANGED <<mapperVars, pageVars, harnessVars>>

SpecValidator == InitValidator /\ [][NextValidator]_vars

-----------------------------------------------------------------------------
(* The BoneMapper operations, called on one asset in any order *)

Init ==
    \E names \in SkeletonNames :
        /\ bones = MkBones(names)
        /\ clips \in ClipsFor(names)
        /\ mapping = EmptyMap
        /\ validation = NoValidation
        /\ snap = [built |-> FALSE, bones |-> << >>, clips |-> << >>]
        /\ once = << >>
        /\ applied = 0
        /\ animated = 0
        /\ stats = NoStatistics
        /\ fbx = NoAsset
        /\ reports = << >>
        /\ page = "none"
        /\ pc = "idle"
        /\ trace = << >>
        /\ error = ""
        /\ IdleHarness

\* const boneMapping = BoneMapper.autoMapBones(character.skeleton.bones)
AutoMapBones ==
    /\ mapping' = autoMapBones(bones)
    /\ snap' = [built |-> TRUE, bones |-> bones, clips |-> clips]
    /\ once' = << >>
    /\ applied' = 0
    /\ animated' = 0
    /\ validation' = NoValidation
    /\ UNCHANGED <<bones, clips>>

\* BoneMapper.applyMapping(character.mesh, boneMapping)
ApplyMapping ==
    /\ snap.built
    /\ applied < MaxApply
    /\ bones' = applyMapping(bones, mapping)
    /\ applied' = applied + 1
    /\ once' = IF applied = 0 THEN bones' ELSE once
    /\ validation' = NoValidation
    /\ UNCHANGED <<clips, mapping, snap, animated>>

\* BoneMapper.applyMappingToAnimations(character.animations, boneMapping)
ApplyMappingToAnimations ==
    /\ snap.built
    /\ animated < MaxApply
    /\ clips' = applyMappingToAnimations(clips, mapping)
    /\ animated' = animated + 1
    /\ validation' = NoValidation
    /\ UNCHANGED <<bones, mapping, snap, once, applied>>

\* const validation = BoneMapper.validateBones(character.mesh)
ValidateBones ==
    /\ ~validation.returned
    /\ validation' = [returned |-> TRUE, value |-> validateBones(bones)]
    /\ UNCHANGED <<bones, clips, mapping, snap, once, applied, animated>>

Next ==
    \/ AutoMapBones /\ UNCHANGED <<stats, validatorVars, pageVars, harnessVars>>
    \/ ApplyMapping /\ UNCHANGED <<stats, validatorVars, pageVars, harnessVars>>
    \/ ApplyMappingToAnimations /\ UNCHANGED <<stats, validatorVars, pageVars, harnessVars>>
    \/ ValidateBones /\ UNCHANGED <<stats, validatorVars, pageVars, harnessVars>>

Spec == Init /\ [][Next]_vars

-----------------------------------------------------------------------------
(* BoneMapper.getBoneStatistics, called on one skeleton *)

MaxStatBones == 80   \* longest skeleton the statistics are taken of

\* A skeleton of total bones of which the first standard ones carry canonical
\* names (the canonical names in turn) and the others a name of no convention.
StatSkeleton(standard, total) ==
    MkBones([i \in 1..total |->
                IF i <= standard
                THEN STANDARD_BONES[((i - 1) % Len(STANDARD_BONES)) + 1]
                ELSE "Prop"])

InitStatistics ==
    /\ \E total \in 0..MaxStatBones :
          \E standard \in 0..total :
              bones = StatSkeleton(standard, total)
    /\ clips = << >>
    /\ mapping = EmptyMap
    /\ validation = NoValidation
    /\ snap = [built |-> FALSE, bones |-> << >>, clips |-> << >>]
    /\ once = << >>
    /\ applied = 0
    /\ animated = 0
    /\ stats = NoStatistics
    /\ fbx = NoAsset
    /\ reports = << >>
    /\ IdlePage
    /\ IdleHarness

\* const stats = BoneMapper.getBoneStatistics(character.mesh)
GetBoneStatistics ==
    /\ ~stats.returned
    /\ stats' = [returned |-> TRUE, value |-> getBoneStatistics(bones)]
    /\ UNCHANGED <<bones, clips, mapping, validation, snap, once, applied, animated>>

NextStatistics ==
    GetBoneStatistics /\ UNCHANGED <<validatorVars, pageVars, harnessVars>>

SpecStatistics == InitStatistics /\ [][NextStatistics]_vars

-----------------------------------------------------------------------------
(* The orchestrators: init of the page components App and RiggingTest *)

Pages == {"App", "RiggingTest"}

\* Variant of CharacterMesh that falls back on the root object of the asset
\* when the traversal meets no SkinnedMesh.
CharacterMeshOrRoot(asset) ==
    IF TraverseFrom(asset.nodes, 1, 0) # 0
    THEN TraverseFrom(asset.nodes, 1, 0) ELSE 1

\* CharacterLoader.loadCharacter: the mesh the character holds, 0 for none.
CharacterMesh(asset) == TraverseFrom(asset.nodes, 1, 0)

\* const skeleton = mesh.skeleton
HasSkeleton(asset) == asset.nodes[CharacterMesh(asset)].skeleton.present

\* character.skeleton.bones and character.animations are the objects of the
\* loaded asset: renaming through the character renames in rawFbx.
Renamed(asset, bs, cs) ==
    [asset EXCEPT
        !.nodes[CharacterMesh(asset)].skeleton.bones =
            IF HasSkeleton(asset) THEN bs ELSE @,
        !.animations.list = IF asset.animations.defined THEN cs ELSE @]

InitPipeline ==
    /\ \E nodes \in AssetNodes :
          \E anims \in AssetAnimations(nodes) :
              fbx = [nodes |-> nodes, animations |-> anims]
    /\ reports = << >>
    /\ IdleMapper
    /\ page \in Pages
    /\ pc = "idle"
    /\ trace = << >>
    /\ error = ""
    /\ IdleHarness

\* useEffect: init() runs up to await loader.loadCharacter(...)
Mount ==
    /\ pc = "idle"
    /\ pc' = "loading"
    /\ trace' = trace \o <<"CharacterRenderer", "CharacterLoader", "loadCharacter">>
    /\ UNCHANGED <<page, error, mapperVars, validatorVars>>

\* loadCharacter throws: loadAsync failed, or no SkinnedMesh was found.
LoadRejected ==
    /\ pc = "loading"
    /\ \E loaded \in BOOLEAN :
          /\ ~loaded \/ CharacterMesh(fbx) = 0
          /\ error' = IF loaded THEN "Failed to load character: No SkinnedMesh found in FBX"
                      ELSE "Failed to load character"
    /\ pc' = "failed"
    /\ UNCHANGED <<page, trace, mapperVars, validatorVars>>

\* loadCharacter returns { mesh, skeleton, animations, mixer, rawFbx }
LoadResolved ==
    /\ pc = "loading"
    /\ CharacterMesh(fbx) # 0
    /\ bones' = fbx.nodes[CharacterMesh(fbx)].skeleton.bones
    /\ clips' = IF fbx.animations.defined THEN fbx.animations.list ELSE << >>
    /\ pc' = IF page = "RiggingTest" THEN "validate" ELSE "map"
    /\ UNCHANGED <<mapping, validation, snap, once, applied, animated, stats>>
    /\ UNCHANGED <<page, trace, error, validatorVars>>

\* RiggingTest: FBXValidator.validateFBXGroup(character.rawFbx!) and the
\* return when the report is not valid.
PageValidate ==
    /\ pc = "validate"
    /\ LET report == validateFBXGroup(fbx) IN
          /\ reports' = Append(reports, report)
          /\ pc' = IF report.isValid THEN "map" ELSE "stopped"
          /\ error' = IF report.isValid THEN error ELSE "FBX Validation Failed"
    /\ trace' = Append(trace, "validateFBXGroup")
    /\ UNCHANGED <<page, fbx, mapperVars>>

\* character.skeleton.bones of a mesh without skeleton: a TypeError, caught
\* by the try block of App.init and by init().catch of RiggingTest.
PageNoSkeleton ==
    /\ pc = "map"
    /\ ~HasSkeleton(fbx)
    /\ pc' = "failed"
    /\ error' = "TypeError"
    /\ UNCHANGED <<page, trace, mapperVars, validatorVars>>

PageAutoMap ==
    /\ pc = "map"
    /\ HasSkeleton(fbx)
    /\ AutoMapBones
    /\ pc' = "apply"
    /\ trace' = Append(trace, "autoMapBones")
    /\ UNCHANGED <<page, error, stats, validatorVars>>

PageApply ==
    /\ pc = "apply"
    /\ ApplyMapping
    /\ fbx' = Renamed(fbx, bones', clips')
    /\ pc' = IF page = "RiggingTest" THEN "animations" ELSE "check"
    /\ trace' = Append(trace, "applyMapping")
    /\ UNCHANGED <<page, error, stats, reports>>

PageApplyToAnimations ==
    /\ pc = "animations"
    /\ ApplyMappingToAnimations
    /\ fbx' = Renamed(fbx, bones', clips')
    /\ pc' = "check"
    /\ trace' = Append(trace, "applyMappingToAnimations")
    /\ UNCHANGED <<page, error, stats, reports>>

\* validateBones, and in RiggingTest getBoneStatistics
PageCheck ==
    /\ pc = "check"
    /\ ValidateBones
    /\ pc' = "render"
    /\ trace' = trace \o (IF page = "RiggingTest"
                          THEN <<"validateBones", "getBoneStatistics">>
                          ELSE <<"validateBones">>)
    /\ stats' = IF page = "RiggingTest"
                THEN [returned |-> TRUE, value |-> getBoneStatistics(bones)]
                ELSE stats
    /\ UNCHANGED <<page, error, validatorVars>>

\* addCharacterMesh, playAnimation of the first clip, startAnimationLoop
PageRender ==
    /\ pc = "render"
    /\ pc' = "ready"
    /\ trace' = trace \o <<"addCharacterMesh">>
                      \o (IF Len(clips) > 0 THEN <<"playAnimation">> ELSE << >>)
                      \o <<"startAnimationLoop">>
    /\ UNCHANGED <<page, error, mapperVars, validatorVars>>

NextPipeline ==
    \/ Mount /\ UNCHANGED harnessVars
    \/ LoadRejected /\ UNCHANGED harnessVars
    \/ LoadResolved /\ UNCHANGED harnessVars
    \/ PageValidate /\ UNCHANGED harnessVars
    \/ PageNoSkeleton /\ UNCHANGED harnessVars
    \/ PageAutoMap /\ UNCHANGED harnessVars
    \/ PageApply /\ UNCHANGED harnessVars
    \/ PageApplyToAnimations /\ UNCHANGED harnessVars
    \/ PageCheck /\ UNCHANGED harnessVars
    \/ PageRender /\ UNCHANGED harnessVars

SpecPipeline == InitPipeline /\ [][NextPipeline]_vars

Min(S) == CHOOSE x \in S : \A y \in S : x <= y

-----------------------------------------------------------------------------
(* CharacterLoader: loadCharacter and playAnimation *)

LoopModes == {"LoopRepeat", "LoopOnce"}

\* A CharacterAsset: the index of its mesh in the scene, the names of its
\* clips (character.animations), for every clip the loop mode of the action
\* the mixer plays for it ("none" without action), and mesh.position (x, z)
\* in steps of one frame.
NoCharacter ==
    [loaded |-> FALSE, mesh |-> 0, animations |-> << >>, mixer |-> << >>,
     position |-> <<0, 0>>]

\* loadCharacter(fbxUrl): loaded is FALSE when fbxLoader.loadAsync rejects.
loadCharacter(asset, loaded) ==
    IF ~loaded
    THEN [thrown |-> TRUE,
          message |-> "Failed to load character from url: load error",
          character |-> NoCharacter]
    ELSE IF CharacterMesh(asset) = 0
    THEN [thrown |-> TRUE,
          message |-> "Failed to load character from url: No SkinnedMesh found in FBX",
          character |-> NoCharacter]
    ELSE LET animations == IF asset.animations.defined
                           THEN asset.animations.list ELSE << >>
         IN [thrown |-> FALSE,
             message |-> "",
             character |->
                [loaded |-> TRUE,
                 mesh |-> CharacterMesh(asset),
                 animations |-> [c \in DOMAIN animations |-> animations[c].name],
                 mixer |-> [c \in DOMAIN animations |-> "none"],
                 position |-> <<0, 0>>]]

\* THREE.AnimationClip.findByName: the first clip of that name, 0 for none.
findByName(animations, name) ==
    IF \E c \in DOMAIN animations : animations[c] = name
    THEN Min({c \in DOMAIN animations : animations[c] = name})
    ELSE 0

\* Variant of playAnimation that plays the first clip when no clip carries
\* the name.
playAnimationOrFirst(character, animationName, loop) ==
    LET found == findByName(character.animations, animationName)
        clip == IF found = 0 /\ Len(character.animations) > 0 THEN 1 ELSE found
    IN IF clip = 0
       THEN [thrown |-> TRUE, message |-> "Animation not found",
             character |-> character]
       ELSE [thrown |-> FALSE, message |-> "",
             character |-> [character EXCEPT !.mixer[clip] = loop]]

\* playAnimation(character, animationName, loop): throws, or
\* mixer.clipAction(clip) with action.loop = loop and action.play().
playAnimation(character, animationName, loop) ==
    LET clip == findByName(character.animations, animationName) IN
    IF clip = 0
    THEN [thrown |-> TRUE, message |-> "Animation not found",
          character |-> character]
    ELSE [thrown |-> FALSE, message |-> "",
          character |-> [character EXCEPT !.mixer[clip] = loop]]

-----------------------------------------------------------------------------
(* Inputs: assets with named clips *)

MaxLoads == 1   \* loadCharacter calls that return a character

\* Clip names: none, the Mixamo default, an idle and an attack clip, two
\* clips of one name.
ClipNameLists ==
    { << >>, <<"mixamo.com">>, <<"Idle", "Jab">>, <<"Idle", "Idle">> }

NamedAnimations(nodes, names) ==
    [defined |-> TRUE,
     list |-> [c \in DOMAIN names |->
                 [name |-> names[c],
                  tracks |-> BoneTracks(RigOf(nodes)) \o <<"Tail.scale">>]]]

\* The names asked of playAnimation: those of the clips, one in another
\* case, the empty name, and one that no clip carries.
RequestedNames == {"mixamo.com", "Idle", "Jab", "jab", "", "Walk"}

FullMesh ==
    SkinnedMesh([present |-> TRUE, bones |-> MkBones(MixamoRig)],
                <<180, 180, 60>>,
                [present |-> TRUE,
                 list |-> <<Material("MeshStandardMaterial", TRUE)>>])

BareMesh == SkinnedMesh(NoSkeleton, <<0, 0, 0>>, NoMaterial)

\* No SkinnedMesh (a plain Mesh), a SkinnedMesh without skeleton, a complete
\* character.
LoaderNodes ==
    { <<Node("Group"), Node("Mesh")>>,
      <<Node("Group"), BareMesh>>,
      <<Node("Group"), FullMesh>> }

LoaderAssets ==
    {[nodes |-> nodes, animations |-> NoAnimations] : nodes \in LoaderNodes}
        \cup {[nodes |-> nodes, animations |-> NamedAnimations(nodes, names)] :
                 nodes \in LoaderNodes, names \in ClipNameLists}

-----------------------------------------------------------------------------
(* CharacterLoader, called on one asset *)

InitLoader ==
    /\ fbx \in LoaderAssets
    /\ reports = << >>
    /\ IdleMapper
    /\ IdlePage
    /\ IdleHarness

\* await loader.loadCharacter(url)
LoadCharacter ==
    /\ Len(characters) < MaxLoads
    /\ \E loaded \in BOOLEAN :
          LET r == loadCharacter(fbx, loaded) IN
          /\ characters' = IF r.thrown THEN characters
                           ELSE Append(characters, r.character)
          /\ call' = [op |-> "loadCharacter", thrown |-> r.thrown,
                      message |-> r.message]
    /\ UNCHANGED <<runs, renderers, characterRef, loaderRef, isAttacking,
                   keysPressed, timers, nextFrameId>>

\* loader.playAnimation(character, animationName, loop)
PlayAnimation ==
    \E c \in DOMAIN characters, name \in RequestedNames, loop \in LoopModes :
        LET r == playAnimation(characters[c], name, loop) IN
        /\ characters' = [characters EXCEPT ![c] = r.character]
        /\ call' = [op |-> "playAnimation", thrown |-> r.thrown,
                    message |-> r.message, character |-> c, name |-> name,
                    before |-> characters[c].mixer]
        /\ UNCHANGED <<runs, renderers, characterRef, loaderRef, isAttacking,
                       keysPressed, timers, nextFrameId>>

NextLoader ==
    \/ LoadCharacter /\ UNCHANGED <<mapperVars, validatorVars, pageVars>>
    \/ PlayAnimation /\ UNCHANGED <<mapperVars, validatorVars, pageVars>>

SpecLoader == InitLoader /\ [][NextLoader]_vars

-----------------------------------------------------------------------------
(* CharacterRenderer: the frame loop *)

\* A CharacterRenderer: animationFrameId (0 for null), the ids of its frame
\* requests the browser still holds, whether dispose() has returned, and
\* (history) whether renderer.render ran after that.
NewRenderer ==
    [animationFrameId |-> 0, requested |-> {}, disposed |-> FALSE,
     renderedAfterDispose |-> FALSE]

\* One run of animate for the renderer: requestAnimationFrame(animate)
\* returns id, then mixers, onFrame and renderer.render.
animate(r, id) ==
    [r EXCEPT !.animationFrameId = id,
              !.requested = @ \cup {id},
              !.renderedAfterDispose = @ \/ r.disposed]

\* stopAnimationLoop(): cancels the request whose id the field holds.
stopAnimationLoop(r) ==
    IF r.animationFrameId # 0
    THEN [r EXCEPT !.requested = @ \ {r.animationFrameId},
                   !.animationFrameId = 0]
    ELSE r

dispose(r) == [stopAnimationLoop(r) EXCEPT !.disposed = TRUE]

-----------------------------------------------------------------------------
(* RiggingTest: the effect, its key handlers, the attack timer *)

\* createRoot(...).render(<StrictMode><RiggingTest /></StrictMode>): the
\* effect of the one RiggingTest runs, is cleaned up and runs again.
StrictModeRuns == 2

MaxFrames == 3   \* frame requests made in all

\* e.key.toLowerCase() of the keys the model presses.
Keys == {"w", "j", "k"}

Pressed(keys, a, b) == a \in keys \/ b \in keys
Step(keys, a, b) == IF Pressed(keys, a, b) THEN 1 ELSE 0

\* a.name.toLowerCase(), tabulated over the clip names of the model.
LowerCaseName ==
    [n \in UNION {{names[c] : c \in DOMAIN names} : names \in ClipNameLists}
        |-> toLowerCase(n)]

\* animations.find(a => a.name.toLowerCase().includes(w1) || ...): the index
\* of the first such clip, 0 for undefined.
Find(animations, words) ==
    LET hit(c) == \E w \in words : includes(LowerCaseName[animations[c]], w) IN
    IF \E c \in DOMAIN animations : hit(c)
    THEN Min({c \in DOMAIN animations : hit(c)})
    ELSE 0

\* Variant of onFrame that moves the character during an attack too.
onFrameUnlocked(chars, ref, attacking, keys) ==
    IF ref # 0
    THEN [chars EXCEPT ![ref].position =
            << @[1] + Step(keys, "d", "arrowright") - Step(keys, "a", "arrowleft"),
               @[2] + Step(keys, "w", "arrowup") - Step(keys, "s", "arrowdown") >>]
    ELSE chars

\* The frame callback given to startAnimationLoop: the game logic.
onFrame(chars, ref, attacking, keys) ==
    IF ref # 0 /\ ~attacking
    THEN [chars EXCEPT ![ref].position =
            << @[1] + Step(keys, "d", "arrowright") - Step(keys, "a", "arrowleft"),
               @[2] + Step(keys, "w", "arrowup") - Step(keys, "s", "arrowdown") >>]
    ELSE chars

\* What a handler has in hand: the refs it writes, the timers it has set,
\* and whether a call it made has thrown.
Hand(attacking, chars, pending) ==
    [isAttacking |-> attacking, characters |-> chars, timers |-> pending,
     thrown |-> FALSE]

updateMovementState(h, keys, ref, lref) ==
    IF h.thrown \/ h.isAttacking \/ ref = 0 THEN h
    ELSE LET animations == h.characters[ref].animations
             isMoving == \/ Pressed(keys, "w", "arrowup")
                         \/ Pressed(keys, "s", "arrowdown")
                         \/ Pressed(keys, "a", "arrowleft")
                         \/ Pressed(keys, "d", "arrowright")
             found == IF isMoving THEN Find(animations, {"walk", "run"})
                      ELSE Find(animations, {"idle", "wait"})
             animToPlay ==
                IF found # 0 THEN found
                ELSE IF isMoving THEN (IF Len(animations) > 1 THEN 2 ELSE 0)
                ELSE (IF Len(animations) > 0 THEN 1 ELSE 0)
         IN IF animToPlay # 0 /\ lref # 0
            THEN LET p == playAnimation(h.characters[ref],
                                        animations[animToPlay], "LoopRepeat")
                 IN [h EXCEPT !.characters[ref] = p.character,
                              !.thrown = p.thrown]
            ELSE h

\* triggerAttack(attackName): a playAnimation that throws leaves the
\* function before setTimeout.
triggerAttack(h, ref, lref) ==
    IF ref = 0 \/ h.isAttacking THEN h
    ELSE LET animations == h.characters[ref].animations
             found == Find(animations, {"jab", "punch", "attack"})
             attackAnim == IF found # 0 THEN found
                           ELSE IF Len(animations) > 1 THEN 2 ELSE 0
             p == IF attackAnim # 0 /\ lref # 0
                  THEN playAnimation(h.characters[ref],
                                     animations[attackAnim], "LoopOnce")
                  ELSE [thrown |-> FALSE, message |-> "",
                        character |-> h.characters[ref]]
         IN IF p.thrown
            THEN [h EXCEPT !.isAttacking = TRUE, !.thrown = TRUE]
            ELSE [h EXCEPT !.isAttacking = TRUE,
                           !.characters[ref] = p.character,
                           !.timers = @ + 1]

handleKeyDown(h, key, keys, ref, lref) ==
    LET h1 == IF ~h.isAttacking /\ key \in {"j", "z", "k", "x"}
              THEN triggerAttack(h, ref, lref) ELSE h
    IN updateMovementState(h1, keys \cup {key}, ref, lref)

handleKeyUp(h, key, keys, ref, lref) ==
    updateMovementState(h, keys \ {key}, ref, lref)

\* The assets RiggingTest is run on: without SkinnedMesh, without skeleton,
\* and a complete character with no clip, one clip, an idle and an attack
\* clip.
HarnessAssets ==
    {[nodes |-> nodes, animations |-> NamedAnimations(nodes, <<"mixamo.com">>)] :
        nodes \in LoaderNodes}
    \cup {[nodes |-> <<Node("Group"), FullMesh>>,
           animations |-> NamedAnimations(<<Node("Group"), FullMesh>>, names)] :
             names \in {<< >>, <<"Idle", "Jab">>}}

InitHarness ==
    /\ fbx \in HarnessAssets
    /\ reports = << >>
    /\ IdleMapper
    /\ page = "RiggingTest"
    /\ pc = "idle"
    /\ trace = << >>
    /\ error = ""
    /\ IdleHarness

Listening == \E e \in DOMAIN runs : runs[e].listening

\* useEffect runs: init() up to await loader.loadCharacter(...), then
\* addEventListener for keydown and keyup.
EffectRuns ==
    /\ Len(runs) < StrictModeRuns
    /\ ~Listening
    /\ runs' = Append(runs, [pc |-> "loading", listening |-> TRUE])
    /\ renderers' = Append(renderers, NewRenderer)
    /\ characters' = Append(characters, NoCharacter)
    /\ loaderRef' = Len(runs) + 1
    /\ UNCHANGED <<characterRef, isAttacking, keysPressed, timers,
                   nextFrameId, call>>
    /\ UNCHANGED <<mapperVars, validatorVars, pageVars>>

\* The cleanup of run e: removeEventListener, renderer.dispose().
EffectCleanup(e) ==
    /\ runs[e].listening
    /\ runs' = [runs EXCEPT ![e].listening = FALSE]
    /\ renderers' = [renderers EXCEPT ![e] = dispose(@)]
    /\ UNCHANGED <<characters, characterRef, loaderRef, isAttacking,
                   keysPressed, timers, nextFrameId, call>>
    /\ UNCHANGED <<mapperVars, validatorVars, pageVars>>

\* loadCharacter of run e rejects: init().catch.
LoadFails(e) ==
    /\ runs[e].pc = "loading"
    /\ \E loaded \in BOOLEAN :
          LET r == loadCharacter(fbx, loaded) IN
          /\ r.thrown
          /\ error' = r.message
    /\ runs' = [runs EXCEPT ![e].pc = "failed"]
    /\ UNCHANGED <<renderers, characters, characterRef, loaderRef,
                   isAttacking, keysPressed, timers, nextFrameId, call>>
    /\ UNCHANGED <<mapperVars, validatorVars, page, pc, trace>>

\* loadCharacter of run e returns a character whose asset the validator
\* refuses: init() returns after setError.
LoadRefused(e) ==
    /\ runs[e].pc = "loading"
    /\ ~loadCharacter(fbx, TRUE).thrown
    /\ ~validateFBXGroup(fbx).isValid
    /\ characters' = [characters EXCEPT ![e] = loadCharacter(fbx, TRUE).character]
    /\ characterRef' = e
    /\ reports' = Append(reports, validateFBXGroup(fbx))
    /\ error' = "FBX Validation Failed"
    /\ runs' = [runs EXCEPT ![e].pc = "stopped"]
    /\ UNCHANGED <<renderers, loaderRef, isAttacking, keysPressed, timers,
                   nextFrameId, call>>
    /\ UNCHANGED <<mapperVars, fbx, page, pc, trace>>

\* loadCharacter of run e returns and init() runs to its end: validation,
\* mapping, statistics, addCharacterMesh, playAnimation of the first clip,
\* startAnimationLoop with its first run of animate.  The run works on the
\* objects of its own load; bones and clips are those of the latest run.
LoadCompletes(e) ==
    /\ runs[e].pc = "loading"
    /\ nextFrameId <= MaxFrames
    /\ ~loadCharacter(fbx, TRUE).thrown
    /\ validateFBXGroup(fbx).isValid
    /\ LET character == loadCharacter(fbx, TRUE).character
           bs == fbx.nodes[character.mesh].skeleton.bones
           cs == IF fbx.animations.defined THEN fbx.animations.list ELSE << >>
           p == IF Len(character.animations) > 0
                THEN playAnimation(character, character.animations[1],
                                   "LoopRepeat")
                ELSE [thrown |-> FALSE, message |-> "", character |-> character]
       IN /\ characterRef' = e
          /\ reports' = Append(reports, validateFBXGroup(fbx))
          /\ mapping' = autoMapBones(bs)
          /\ snap' = [built |-> TRUE, bones |-> bs, clips |-> cs]
          /\ bones' = applyMapping(bs, mapping')
          /\ once' = bones'
          /\ applied' = 1
          /\ clips' = applyMappingToAnimations(cs, mapping')
          /\ animated' = 1
          /\ validation' = [returned |-> TRUE, value |-> validateBones(bones')]
          /\ stats' = [returned |-> TRUE, value |-> getBoneStatistics(bones')]
          /\ IF p.thrown
             THEN /\ characters' = [characters EXCEPT ![e] = character]
                  /\ error' = p.message
                  /\ runs' = [runs EXCEPT ![e].pc = "failed"]
                  /\ UNCHANGED <<renderers, nextFrameId>>
             ELSE /\ characters' =
                        onFrame([characters EXCEPT ![e] = p.character],
                                e, isAttacking, keysPressed)
                  /\ renderers' = [renderers EXCEPT ![e] = animate(@, nextFrameId)]
                  /\ nextFrameId' = nextFrameId + 1
                  /\ runs' = [runs EXCEPT ![e].pc = "ready"]
                  /\ UNCHANGED error
    /\ UNCHANGED <<loaderRef, isAttacking, keysPressed, timers, call>>
    /\ UNCHANGED <<fbx, page, pc, trace>>

\* The browser runs the frame request id of renderer e: animate.
Frame(e, id) ==
    /\ id \in renderers[e].requested
    /\ nextFrameId <= MaxFrames
    /\ renderers' = [renderers EXCEPT
                        ![e] = animate([@ EXCEPT !.requested = @ \ {id}],
                                       nextFrameId)]
    /\ nextFrameId' = nextFrameId + 1
    /\ characters' = onFrame(characters, characterRef, isAttacking, keysPressed)
    /\ UNCHANGED <<runs, characterRef, loaderRef, isAttacking, keysPressed,
                   timers, call>>
    /\ UNCHANGED <<mapperVars, validatorVars, pageVars>>

\* A keydown event reaches the listener attached.
KeyDown(key) ==
    /\ Listening
    /\ LET h == handleKeyDown(Hand(isAttacking, characters, timers), key,
                              keysPressed, characterRef, loaderRef)
       IN /\ keysPressed' = keysPressed \cup {key}
          /\ isAttacking' = h.isAttacking
          /\ characters' = h.characters
          /\ timers' = h.timers
    /\ UNCHANGED <<runs, renderers, characterRef, loaderRef, nextFrameId, call>>
    /\ UNCHANGED <<mapperVars, validatorVars, pageVars>>

\* A keyup event reaches the listener attached.
KeyUp(key) ==
    /\ Listening
    /\ LET h == handleKeyUp(Hand(isAttacking, characters, timers), key,
                            keysPressed, characterRef, loaderRef)
       IN /\ keysPressed' = keysPressed \ {key}
          /\ isAttacking' = h.isAttacking
          /\ characters' = h.characters
          /\ timers' = h.timers
    /\ UNCHANGED <<runs, renderers, characterRef, loaderRef, nextFrameId, call>>
    /\ UNCHANGED <<mapperVars, validatorVars, pageVars>>

\* The 500 ms timer of an attack fires.
AttackTimer ==
    /\ timers > 0
    /\ timers' = timers - 1
    /\ isAttacking' = FALSE
    /\ characters' = updateMovementState(Hand(FALSE, characters, timers - 1),
                                         keysPressed, characterRef,
                                         loaderRef).characters
    /\ UNCHANGED <<runs, renderers, characterRef, loaderRef, keysPressed,
                   nextFrameId, call>>
    /\ UNCHANGED <<mapperVars, validatorVars, pageVars>>

NextHarness ==
    \/ EffectRuns
    \/ \E e \in DOMAIN runs : EffectCleanup(e)
    \/ \E e \in DOMAIN runs : LoadFails(e)
    \/ \E e \in DOMAIN runs : LoadRefused(e)
    \/ \E e \in DOMAIN runs : LoadCompletes(e)
    \/ \E e \in DOMAIN runs : \E id \in 1..MaxFrames : Frame(e, id)
    \/ \E key \in Keys : KeyDown(key)
    \/ \E key \in Keys : KeyUp(key)
    \/ AttackTimer

SpecHarness == InitHarness /\ [][NextHarness]_vars

\* Timers set with setTimeout fire: the cleanup clears none of them.
SpecHarnessFair == SpecHarness /\ WF_vars(AttackTimer)

-----------------------------------------------------------------------------
(* Vocabulary of the properties *)

\* All rules whose pattern matches a name, whatever their place in the table.
MatchingRules ==
    [n \in BoneNames |->
        {k \in DOMAIN BONE_PATTERNS : RegExpTest(BONE_PATTERNS[k].pattern, n)}]

\* s contains w, compared without case.
Contains(s, w) == includes(Canon(s), w)

\* The mapping in hand was built from the skeleton in snap and nothing has
\* been applied since.
Built == snap.built
SnapNames == BoneNamesOf(snap.bones)

\* The text before the first "." of a track name and the rest from that ".".
HasDot(track) == \E i \in 1..Len(track) : SubSeq(track, i, i) = "."
FirstDot(track) == Min({i \in 1..Len(track) : SubSeq(track, i, i) = "."})
Prefix(track) == SubSeq(track, 1, FirstDot(track) - 1)
Suffix(track) == SubSeq(track, FirstDot(track), Len(track))

TrackPlaces(cs) == {<<c, t>> : c \in DOMAIN cs, t \in 1..(2 * 24 + 1)}
Places(cs) == {p \in TrackPlaces(cs) : p[2] \in DOMAIN cs[p[1]].tracks}

-----------------------------------------------------------------------------
(* C1: autoMapBones sends every bone name of its input to the target of   *)
(* the lowest-index rule of BONE_PATTERNS that matches it, and gives a    *)
(* name that no rule matches no entry.                                     *)
C1_FirstMatchWins ==
    Built =>
        /\ MapKeys(mapping) \subseteq {SnapNames[i] : i \in DOMAIN SnapNames}
        /\ \A i \in DOMAIN SnapNames :
              LET n == SnapNames[i] IN
              IF MatchingRules[n] = {}
              THEN ~MapHas(mapping, n)
              ELSE /\ MapHas(mapping, n)
                   /\ MapGet(mapping, n)
                        = BONE_PATTERNS[Min(MatchingRules[n])].target

\* A mapping was built from a skeleton with a bone that two rules match
\* and a bone that none matches.
C1_Witness ==
    /\ Built
    /\ \E i \in DOMAIN SnapNames : Cardinality(MatchingRules[SnapNames[i]]) >= 2
    /\ \E i \in DOMAIN SnapNames : MatchingRules[SnapNames[i]] = {}

(* C2: a bone name of a forearm never maps to LeftArm or RightArm, and a  *)
(* bone name of an upper leg never maps to LeftLeg or RightLeg.           *)
IsForearmName(n) == Contains(n, "forearm")
IsUpperLegName(n) == Contains(n, "upleg") \/ Contains(n, "upperleg")

C2_Exclusion ==
    Built =>
        \A i \in DOMAIN SnapNames :
            LET n == SnapNames[i] IN
            MapHas(mapping, n) =>
                /\ IsForearmName(n) => MapGet(mapping, n) \notin {"LeftArm", "RightArm"}
                /\ IsUpperLegName(n) => MapGet(mapping, n) \notin {"LeftLeg", "RightLeg"}

(* C3: a name that an anchored rule (^...$) and a looser rule both match  *)
(* maps to the anchored rule's target; Spine1 to Spine1, Spine2 to Spine2.*)
IsExactRule(k) ==
    LET r == BONE_PATTERNS[k].pattern IN
    r.t = "cat" /\ r.rs[1].t = "bol" /\ r.rs[Len(r.rs)].t = "eol"

C3_ExactBeforeLoose ==
    Built =>
        \A i \in DOMAIN SnapNames :
            LET n == SnapNames[i] IN
            /\ \A e \in MatchingRules[n] :
                  (IsExactRule(e) /\ \E l \in MatchingRules[n] : ~IsExactRule(l))
                      => /\ MapHas(mapping, n)
                         /\ MapGet(mapping, n) = BONE_PATTERNS[e].target
            /\ n \in {"Spine1", "Spine2"} => MapHas(mapping, n) /\ MapGet(mapping, n) = n

\* A mapping was built from a skeleton with a bone named Spine1.
C3_Witness ==
    /\ Built
    /\ \E i \in DOMAIN SnapNames : SnapNames[i] = "Spine1"
    /\ MapHas(mapping, "Spine1")

(* C4: with the mapping autoMapBones built from the skeleton, a second    *)
(* applyMapping leaves every bone name as the first one left it.          *)
\* Stated for the skeletons the data model admits: bone names pairwise
\* distinct.
DistinctNames(bs) == \A i, j \in DOMAIN bs : bs[i].name = bs[j].name => i = j

C4_ApplyTwice ==
    (applied = 2 /\ DistinctNames(snap.bones))
        => BoneNamesOf(bones) = BoneNamesOf(once)

(* C5: applyMapping keeps the number of bones and their order, whatever   *)
(* the mapping (its second call finds the keys renamed away), and only    *)
(* writes names: a bone carries its old name or a value of the mapping.   *)
C5_OnlyNames ==
    applied >= 1 =>
        /\ Len(bones) = Len(snap.bones)
        /\ \A i \in DOMAIN bones :
              /\ bones[i].uuid = snap.bones[i].uuid
              /\ \/ bones[i].name = snap.bones[i].name
                 \/ \E k \in DOMAIN mapping : bones[i].name = mapping[k][2]

\* applyMapping ran twice, and before its second run some key of the
\* mapping named no bone any more.
C5_Witness ==
    /\ applied = 2
    /\ Len(bones) >= 2
    /\ \E k \in DOMAIN mapping :
          \A i \in DOMAIN once : once[i].name # mapping[k][1]

(* C6: after applyMapping and applyMappingToAnimations, a bone whose      *)
(* original name is no key of the mapping has its original name, and a    *)
(* track without "." or with a prefix that is no key has its original name*)
C6_UnmappedUntouched ==
    (applied >= 1 /\ animated >= 1) =>
        /\ \A i \in DOMAIN bones :
              ~MapHas(mapping, snap.bones[i].name)
                  => bones[i].name = snap.bones[i].name
        /\ \A p \in Places(snap.clips) :
              LET track == snap.clips[p[1]].tracks[p[2]] IN
              (~HasDot(track) \/ ~MapHas(mapping, Prefix(track)))
                  => clips[p[1]].tracks[p[2]] = track

\* Both were applied to an asset with a mapped bone, an unmapped bone, a
\* track without separator and a track of an unmapped bone.
C6_Witness ==
    /\ applied >= 1 /\ animated >= 1
    /\ \E i \in DOMAIN bones : MapHas(mapping, snap.bones[i].name)
    /\ \E i \in DOMAIN bones : ~MapHas(mapping, snap.bones[i].name)
    /\ \E p \in Places(snap.clips) : ~HasDot(snap.clips[p[1]].tracks[p[2]])
    /\ \E p, q \in Places(snap.clips) :
          /\ HasDot(snap.clips[p[1]].tracks[p[2]])
          /\ ~MapHas(mapping, Prefix(snap.clips[p[1]].tracks[p[2]]))
          /\ clips[q[1]].tracks[q[2]] # snap.clips[q[1]].tracks[q[2]]

(* C7: applyMappingToAnimations turns a track P + S, P the text before    *)
(* the first "." and a key of the mapping, into mapping[P] + S.           *)
C7_SuffixKept ==
    animated = 1 =>
        \A p \in Places(snap.clips) :
            LET track == snap.clips[p[1]].tracks[p[2]] IN
            (HasDot(track) /\ MapHas(mapping, Prefix(track)))
                => clips[p[1]].tracks[p[2]]
                      = MapGet(mapping, Prefix(track)) \o Suffix(track)

\* mixamorigHips.position became Hips.position.
C7_Witness ==
    /\ animated = 1
    /\ \E p \in Places(snap.clips) :
          /\ snap.clips[p[1]].tracks[p[2]] = "mixamorigHips.position"
          /\ clips[p[1]].tracks[p[2]] = "Hips.position"

(* C8: validateBones returns isValid = TRUE exactly when each of the      *)
(* seven required names is the name of a bone, and missingBones is the    *)
(* set of required names that no bone carries.                            *)
RequiredNames ==
    {"Hips", "Spine", "Head", "LeftArm", "RightArm", "LeftLeg", "RightLeg"}

C8_ValidateBones ==
    validation.returned =>
        LET present == {r \in RequiredNames : \E i \in DOMAIN bones : bones[i].name = r}
            missing == validation.value.missingBones
        IN /\ validation.value.isValid <=> (present = RequiredNames)
           /\ {missing[k] : k \in DOMAIN missing} = RequiredNames \ present
           /\ Len(missing) = Cardinality(RequiredNames \ present)

\* validateBones accepted a skeleton that applyMapping had renamed.
C8_Witness ==
    /\ validation.returned
    /\ validation.value.isValid
    /\ applied >= 1
    /\ \E i \in DOMAIN bones : bones[i].name # snap.bones[i].name

-----------------------------------------------------------------------------
(* The orchestrator and the validator *)

\* The place of the first call of an operation in the run, 0 for none.
Called(op) ==
    IF \E i \in DOMAIN trace : trace[i] = op
    THEN Min({i \in DOMAIN trace : trace[i] = op})
    ELSE 0

MappingSteps == {"autoMapBones", "applyMapping", "applyMappingToAnimations"}
RenderingSteps == {"addCharacterMesh", "playAnimation", "startAnimationLoop"}

\* C9: in every orchestrator run the mapping steps run only after the
\* Validator returned a report with isValid = TRUE, in the order
\* autoMapBones, applyMapping, applyMappingToAnimations, validateBones; after
\* a report with isValid = FALSE no mapping step and no rendering step runs.
C9_PipelineOrder ==
    /\ \A op \in MappingSteps :
          Called(op) # 0 =>
              /\ Called("validateFBXGroup") # 0
              /\ Called("validateFBXGroup") < Called(op)
              /\ reports[1].isValid
    /\ Called("applyMapping") # 0 =>
          /\ Called("autoMapBones") # 0
          /\ Called("autoMapBones") < Called("applyMapping")
    /\ Called("applyMappingToAnimations") # 0 =>
          /\ Called("applyMapping") # 0
          /\ Called("applyMapping") < Called("applyMappingToAnimations")
    /\ Called("validateBones") # 0 =>
          /\ Called("applyMappingToAnimations") # 0
          /\ Called("applyMappingToAnimations") < Called("validateBones")
    /\ (Len(reports) > 0 /\ ~reports[1].isValid) =>
          \A i \in DOMAIN trace : trace[i] \notin MappingSteps \cup RenderingSteps

\* The SkinnedMesh nodes of an asset, and the one met last.
SkinnedMeshes(asset) ==
    {i \in DOMAIN asset.nodes : asset.nodes[i].kind = "SkinnedMesh"}
LastMesh(asset) ==
    CHOOSE i \in SkinnedMeshes(asset) : \A j \in SkinnedMeshes(asset) : j <= i

NoMeshCase(asset) == SkinnedMeshes(asset) = {}
NoSkeletonCase(asset) ==
    /\ ~NoMeshCase(asset)
    /\ ~asset.nodes[LastMesh(asset)].skeleton.present
ZeroBonesCase(asset) ==
    /\ ~NoMeshCase(asset)
    /\ asset.nodes[LastMesh(asset)].skeleton.present
    /\ asset.nodes[LastMesh(asset)].skeleton.bones = << >>

\* The lines the checks after the skeleton checks write.
LaterLines ==
    { "CRITICAL: Too few bones",
      "This model appears to be incomplete or corrupted",
      "Expected at least bones for a full character",
      "Missing some expected bones",
      "Animation may not work correctly",
      "No animations found in FBX file",
      "Character will be static (T-pose)",
      "No textures found",
      "Character will use default material colors" }

CriticalLine(asset) ==
    IF NoMeshCase(asset) THEN "This file cannot be used for character rigging"
    ELSE IF NoSkeletonCase(asset) THEN "This is not a rigged character"
    ELSE "CRITICAL: Skeleton has no bones"

\* C10: when validateFBXGroup finds no skinned mesh, no skeleton, or a
\* skeleton with zero bones, its report has isValid = FALSE, ends with the
\* error of that check, and holds nothing of a later check: no line about
\* bone count, bone names, animations or textures, and the animation count
\* and texture flag are as initialised.
C10_ShortCircuit ==
    \A k \in DOMAIN reports :
        (NoMeshCase(fbx) \/ NoSkeletonCase(fbx) \/ ZeroBonesCase(fbx)) =>
            /\ ~reports[k].isValid
            /\ reports[k].errors # << >>
            /\ reports[k].errors[Len(reports[k].errors)].text = CriticalLine(fbx)
            /\ \A i \in DOMAIN reports[k].errors :
                  reports[k].errors[i].text \notin LaterLines
            /\ \A i \in DOMAIN reports[k].warnings :
                  reports[k].warnings[i].text \notin LaterLines
            /\ reports[k].info.animationCount = 0
            /\ ~reports[k].info.hasTextures

\* A skeleton with zero bones on a mesh whose later checks would all have
\* spoken: a clip to count and a textured material.
C10_Witness ==
    /\ Len(reports) > 0
    /\ ZeroBonesCase(fbx)
    /\ fbx.animations.defined
    /\ Len(fbx.animations.list) > 0
    /\ fbx.nodes[LastMesh(fbx)].material.present
    /\ \E i \in DOMAIN fbx.nodes[LastMesh(fbx)].material.list :
          fbx.nodes[LastMesh(fbx)].material.list[i].map

-----------------------------------------------------------------------------
(* The checks of the validator, one by one *)

\* The mesh validateFBXGroup looks at, its size and its bones.
TheMesh(asset) == asset.nodes[LastMesh(asset)]
SizeOf(asset) ==
    [a \in 1..3 |-> TheMesh(asset).bbox.max[a] - TheMesh(asset).bbox.min[a]]
ZeroOnSomeAxis(asset) == \E a \in 1..3 : SizeOf(asset)[a] = 0
BoneCount(asset) == Len(TheMesh(asset).skeleton.bones)
HasBones(asset) ==
    /\ ~NoMeshCase(asset)
    /\ TheMesh(asset).skeleton.present
    /\ BoneCount(asset) >= 1

Texts(lines) == [i \in DOMAIN lines |-> lines[i].text]
HasLine(lines, text) == \E i \in DOMAIN lines : lines[i].text = text

\* C11: for an asset with a skinned mesh but no skeleton the errors of the
\* report are exactly the "no skeleton" error, and there is no warning,
\* whatever the size of the mesh.
C11_OnlyNoSkeleton ==
    \A k \in DOMAIN reports :
        NoSkeletonCase(fbx) =>
            /\ Texts(reports[k].errors) =
                  <<"CRITICAL: Mesh has no skeleton", "This is not a rigged character">>
            /\ reports[k].warnings = << >>

BoneCountLines ==
    { "CRITICAL: Too few bones",
      "This model appears to be incomplete or corrupted",
      "Expected at least bones for a full character" }

\* C12: a skeleton of 1 to 19 bones gives isValid = FALSE and an error that
\* names the bone count and the threshold 20; a skeleton of 20 bones or more
\* gets no bone-count error.
C12_BoneCount ==
    \A k \in DOMAIN reports :
        HasBones(fbx) =>
            /\ BoneCount(fbx) <= 19 =>
                  /\ ~reports[k].isValid
                  /\ \E i \in DOMAIN reports[k].errors :
                        /\ reports[k].errors[i].text = "CRITICAL: Too few bones"
                        /\ reports[k].errors[i].nums = <<BoneCount(fbx), 20>>
            /\ BoneCount(fbx) >= 20 =>
                  \A i \in DOMAIN reports[k].errors :
                      reports[k].errors[i].text \notin BoneCountLines

\* Nineteen bones on a mesh with nothing else to report as an error.
C12_Witness ==
    /\ Len(reports) > 0
    /\ HasBones(fbx)
    /\ BoneCount(fbx) = 19
    /\ ~ZeroOnSomeAxis(fbx)
    /\ Len(reports[1].errors) = 3

DegradedLines ==
    { "Missing some expected bones", "Animation may not work correctly",
      "No animations found in FBX file", "Character will be static (T-pose)",
      "No textures found", "Character will use default material colors",
      "Mesh is very small (height < 0.1 units)", "Current size",
      "Will be scaled up automatically" }

ClipCount(asset) ==
    IF asset.animations.defined THEN Len(asset.animations.list) ELSE 0

HasMixamoPrefix(name) == Len(name) >= 9 /\ SubSeq(name, 1, 9) = "mixamorig"

\* A skeleton without prefixed names that holds none of the required names.
NoRequiredName(asset) ==
    LET names == BoneNamesOf(TheMesh(asset).skeleton.bones) IN
    /\ \A i \in DOMAIN names : ~HasMixamoPrefix(names[i])
    /\ \A n \in RequiredNames : ~Includes(names, n)

Textured(asset) ==
    \E i \in DOMAIN TheMesh(asset).material.list :
        /\ TheMesh(asset).material.list[i].cls \in
              {"MeshStandardMaterial", "MeshPhongMaterial"}
        /\ TheMesh(asset).material.list[i].map

\* C13: a mesh of non-zero size on all three axes with a skeleton of at least
\* 20 bones gives isValid = TRUE and no error, whatever bones, clips, textures
\* or height are missing; no clips, an untextured material and a small height
\* are each told by a warning.
C13_DegradedNeverBlocks ==
    \A k \in DOMAIN reports :
        (HasBones(fbx) /\ BoneCount(fbx) >= 20 /\ ~ZeroOnSomeAxis(fbx)) =>
            /\ reports[k].isValid
            /\ reports[k].errors = << >>
            /\ ClipCount(fbx) = 0 =>
                  HasLine(reports[k].warnings, "No animations found in FBX file")
            /\ (TheMesh(fbx).material.present /\ ~Textured(fbx)) =>
                  HasLine(reports[k].warnings, "No textures found")
            /\ SizeOf(fbx)[2] < 10 =>
                  HasLine(reports[k].warnings, "Mesh is very small (height < 0.1 units)")
            /\ NoRequiredName(fbx) =>
                  HasLine(reports[k].warnings, "Missing some expected bones")

\* Twenty bones with no required name, no clip, an untextured material and a
\* height below 0.1: every degraded condition at once.
C13_Witness ==
    /\ Len(reports) > 0
    /\ HasBones(fbx)
    /\ BoneCount(fbx) = 20
    /\ ~ZeroOnSomeAxis(fbx)
    /\ SizeOf(fbx)[2] < 10
    /\ ClipCount(fbx) = 0
    /\ TheMesh(fbx).material.present
    /\ ~Textured(fbx)
    /\ NoRequiredName(fbx)
    /\ reports[1].isValid
    /\ Len(reports[1].warnings) = 9

\* C14: a skinned mesh whose bounding box is zero on at least one axis gives
\* isValid = FALSE and the zero-size error, also when skeleton, bone count,
\* animations and textures are all fine.
C14_ZeroSizeCritical ==
    \A k \in DOMAIN reports :
        (~NoMeshCase(fbx) /\ ZeroOnSomeAxis(fbx)) =>
            /\ ~reports[k].isValid
            /\ HasLine(reports[k].errors,
                       "CRITICAL: Mesh has zero size in one or more dimensions")

\* A mesh flat on one axis only, with all the rest fine: the zero-size error
\* is the only one.
C14_Witness ==
    /\ Len(reports) > 0
    /\ HasBones(fbx)
    /\ BoneCount(fbx) >= 20
    /\ SizeOf(fbx)[1] = 0 /\ SizeOf(fbx)[2] # 0 /\ SizeOf(fbx)[3] # 0
    /\ ClipCount(fbx) > 0
    /\ TheMesh(fbx).material.present
    /\ Textured(fbx)
    /\ Len(reports[1].errors) = 2

\* The names the required-bone check should look for in a skeleton.
RequiredFor(names) ==
    IF \E i \in DOMAIN names : HasMixamoPrefix(names[i])
    THEN [i \in DOMAIN requiredBones |-> "mixamorig" \o requiredBones[i]]
    ELSE requiredBones
MissingFor(names) == FilterNotIn(RequiredFor(names), names)

\* C15: the names validateFBXGroup checks for presence are the seven required
\* names of validateBones, each with the prefix mixamorig when some bone name
\* carries that prefix and bare otherwise: the missing-bones warning is there
\* exactly when one of them is missing, lists the first three of the missing
\* ones, and no error is added.
C15_ConventionAware ==
    \A k \in DOMAIN reports :
        HasBones(fbx) =>
            LET missing == MissingFor(BoneNamesOf(TheMesh(fbx).skeleton.bones)) IN
            /\ ~HasLine(reports[k].errors, "Missing some expected bones")
            /\ (missing # << >>) <=>
                  HasLine(reports[k].warnings, "Missing some expected bones")
            /\ \A i \in DOMAIN reports[k].warnings :
                  reports[k].warnings[i].text = "Missing some expected bones" =>
                      reports[k].warnings[i].names =
                          IF Len(missing) > 3
                          THEN SubSeq(missing, 1, 3) \o <<"...">>
                          ELSE missing

-----------------------------------------------------------------------------
(* Statistics *)

CanonicalCount(bs) ==
    Cardinality({i \in DOMAIN bs :
                    \E k \in DOMAIN STANDARD_BONES : bs[i].name = STANDARD_BONES[k]})

\* 100 * part / whole in tenths, rounded to the nearest tenth, halves upwards.
PercentTenths(part, whole) ==
    CHOOSE t \in 0..1000 :
        /\ 2 * 1000 * part - whole < 2 * whole * t
        /\ 2 * whole * t <= 2 * 1000 * part + whole

\* C16: for a skeleton of at least one bone getBoneStatistics reports the
\* number of bones, the number of bones with a canonical name, their
\* difference, and 100 * standardBones / totalBones rounded to one decimal
\* place as a number; 80 bones with 42 canonical give 80, 42, 38 and 52.5.
C16_Statistics ==
    (stats.returned /\ Len(bones) >= 1) =>
        /\ stats.value.totalBones = Len(bones)
        /\ stats.value.standardBones = CanonicalCount(bones)
        /\ stats.value.nonStandardBones = Len(bones) - CanonicalCount(bones)
        /\ stats.value.standardPercentage =
              NumberValue(PercentTenths(CanonicalCount(bones), Len(bones)))
        /\ (Len(bones) = 80 /\ CanonicalCount(bones) = 42) =>
              stats.value = [totalBones |-> 80, standardBones |-> 42,
                             nonStandardBones |-> 38,
                             standardPercentage |-> NumberValue(525)]

-----------------------------------------------------------------------------
(* Determinism and purity *)

\* The key/value pairs of a mapping, whatever their order.
Pairs(m) == {m[k] : k \in DOMAIN m}

Swap(seq, i, j) ==
    [k \in DOMAIN seq |-> IF k = i THEN seq[j] ELSE IF k = j THEN seq[i] ELSE seq[k]]
Reverse(seq) == [k \in DOMAIN seq |-> seq[Len(seq) + 1 - k]]

\* Rearrangements of a sequence: all of them up to length 3, and beyond that
\* its reversal and every exchange of two of its places.
Rearrangements(seq) ==
    IF Len(seq) <= 3
    THEN {[k \in DOMAIN seq |-> seq[f[k]]] :
             f \in {g \in [DOMAIN seq -> DOMAIN seq] :
                       \A a, b \in DOMAIN seq : g[a] = g[b] => a = b}}
    ELSE {Reverse(seq)} \cup {Swap(seq, i, j) : i, j \in DOMAIN seq}

C17_SameResult ==
    Built =>
        /\ autoMapBones(snap.bones) = mapping
        /\ \A bs \in Rearrangements(snap.bones) :
              Pairs(autoMapBones(bs)) = Pairs(mapping)

C17_NoRename ==
    (mapping' # mapping \/ snap' # snap) => (bones' = bones /\ clips' = clips)

\* C17: a second call of autoMapBones on the same bone sequence returns the
\* mapping the first call returned, a call on a rearranged sequence returns
\* the same key/value pairs, and the step that builds a mapping leaves every
\* bone and every clip as it was.
C17_DeterministicPure == [](C17_SameResult) /\ [][C17_NoRename]_vars

\* A mapping of two entries whose order of insertion follows the order of
\* the bones: the rearranged skeleton gives another Map with the same pairs.
C17_Witness ==
    /\ Built
    /\ Len(mapping) >= 2
    /\ \E bs \in Rearrangements(snap.bones) : autoMapBones(bs) # mapping

C18_EqualReports ==
    \A i, j \in DOMAIN reports :
        /\ reports[i].isValid = reports[j].isValid
        /\ reports[i].errors = reports[j].errors
        /\ reports[i].warnings = reports[j].warnings
        /\ reports[i].info = reports[j].info

C18_AssetKept ==
    reports' # reports => (fbx' = fbx /\ bones' = bones /\ clips' = clips)

-----------------------------------------------------------------------------
(* Renaming across skeleton and tracks *)

\* C19: for a skeleton with pairwise distinct bone names and the mapping
\* built from it, after applyMapping and applyMappingToAnimations every bone
\* whose original name is a key of the mapping carries the value of that key,
\* and every track whose original prefix was that name has the current name
\* of that bone as its prefix.
C19_ConsistentRenaming ==
    (applied = 1 /\ animated = 1 /\ DistinctNames(snap.bones)) =>
        \A i \in DOMAIN snap.bones :
            LET n == snap.bones[i].name IN
            MapHas(mapping, n) =>
                /\ bones[i].name = MapGet(mapping, n)
                /\ \A p \in Places(snap.clips) :
                      LET track == snap.clips[p[1]].tracks[p[2]] IN
                      (HasDot(track) /\ Prefix(track) = n) =>
                          /\ HasDot(clips[p[1]].tracks[p[2]])
                          /\ Prefix(clips[p[1]].tracks[p[2]]) = bones[i].name

\* C20: when the mapping sends two different original names that are both in
\* the skeleton to one canonical name, applyMapping renames both bones: the
\* skeleton ends with both bones carrying that name.
C20_Collision ==
    (applied = 1 /\ DistinctNames(snap.bones)) =>
        \A i, j \in DOMAIN snap.bones :
            LET a == snap.bones[i].name
                b == snap.bones[j].name
            IN (/\ i # j
                /\ MapHas(mapping, a)
                /\ MapHas(mapping, b)
                /\ MapGet(mapping, a) = MapGet(mapping, b)) =>
                   /\ bones[i].name = MapGet(mapping, a)
                   /\ bones[j].name = MapGet(mapping, a)

-----------------------------------------------------------------------------
(* Mesh selection and verdict of the validator *)

FirstMesh(asset) ==
    CHOOSE i \in SkinnedMeshes(asset) : \A j \in SkinnedMeshes(asset) : i <= j

\* C21: when the scene graph holds several skinned-mesh nodes, the report of
\* validateFBXGroup is the report on the first of them in traversal order:
\* its size and its bone count.
C21_FirstMeshInspected ==
    \A k \in DOMAIN reports :
        Cardinality(SkinnedMeshes(fbx)) >= 2 =>
            LET first == fbx.nodes[FirstMesh(fbx)] IN
            /\ reports[k].info.meshSize =
                  [a \in 1..3 |-> first.bbox.max[a] - first.bbox.min[a]]
            /\ reports[k].info.boneCount = Len(first.skeleton.bones)

\* C22: in every report isValid is TRUE exactly when the error list is empty,
\* whether or not there are warnings.
C22_ValidIffNoError ==
    \A k \in DOMAIN reports : reports[k].isValid <=> (reports[k].errors = << >>)

\* A valid report with warnings.
C22_Witness ==
    /\ Len(reports) > 0
    /\ reports[1].isValid
    /\ reports[1].warnings # << >>

-----------------------------------------------------------------------------
(* Mixamo skeletons, the values of a mapping, canonical names *)

StartsWith(s, w) == Len(s) >= Len(w) /\ SubSeq(s, 1, Len(w)) = w
AllMixamo(bs) == \A i \in DOMAIN bs : StartsWith(bs[i].name, "mixamorig")
HasMixamoRequired(bs) ==
    \A k \in DOMAIN MixamoRequired :
        Includes(BoneNamesOf(bs), MixamoRequired[k])

\* C23: a skeleton whose names all start with mixamorig and which holds the
\* Mixamo names of Hips, Spine, Head, both arms and both legs is valid for
\* validateBones after autoMapBones and applyMapping, whatever other Mixamo
\* bones it holds.
C23_MixamoBecomesValid ==
    ( /\ snap.built
      /\ applied >= 1
      /\ validation.returned
      /\ AllMixamo(snap.bones)
      /\ HasMixamoRequired(snap.bones) )
    => validation.value.isValid

\* A required-bones Mixamo skeleton with one more bone, mapped, renamed and
\* validated.
C23_Witness ==
    /\ snap.built
    /\ applied = 1
    /\ validation.returned
    /\ AllMixamo(snap.bones)
    /\ HasMixamoRequired(snap.bones)
    /\ Len(snap.bones) = Len(MixamoRequired) + 1
    /\ validation.value.isValid

\* C24: every value of a mapping is a canonical name, so every bone that
\* applyMapping renamed has a canonical name.
C24_ValuesCanonical ==
    /\ \A e \in DOMAIN mapping : Includes(STANDARD_BONES, mapping[e][2])
    /\ (snap.built /\ applied >= 1) =>
          \A i \in DOMAIN bones :
              bones[i].name # snap.bones[i].name => isStandardBone(bones[i].name)

\* A renamed bone.
C24_Witness ==
    /\ snap.built
    /\ applied >= 1
    /\ \E i \in DOMAIN bones :
          /\ bones[i].name # snap.bones[i].name
          /\ isStandardBone(bones[i].name)

\* C25: autoMapBones sends every canonical name to itself, so autoMapBones
\* followed by applyMapping changes no name of a skeleton of canonical names.
C25_CanonicalFixed ==
    ( /\ snap.built
      /\ applied >= 1
      /\ \A i \in DOMAIN snap.bones : isStandardBone(snap.bones[i].name) )
    => /\ \A i \in DOMAIN snap.bones :
              /\ MapHas(mapping, snap.bones[i].name)
              /\ MapGet(mapping, snap.bones[i].name) = snap.bones[i].name
       /\ bones = snap.bones

-----------------------------------------------------------------------------
(* The validator behind the loader *)

\* C27: in the RiggingTest flow validateFBXGroup runs only on an asset for
\* which loadCharacter resolved, that is an asset with a skinned mesh: no
\* report of the flow comes from the no-skinned-mesh branch.
C27_NoMeshBranchUnreachable ==
    page = "RiggingTest" =>
        /\ Called("validateFBXGroup") # 0 => ~NoMeshCase(fbx)
        /\ \A k \in DOMAIN reports :
              /\ reports[k].info.hasMesh
              /\ ~HasLine(reports[k].errors,
                          "CRITICAL: No SkinnedMesh found in FBX file")
              /\ ~HasLine(reports[k].errors,
                          "This file cannot be used for character rigging")

\* RiggingTest has validated an asset and the report is not valid.
C27_Witness ==
    /\ page = "RiggingTest"
    /\ Called("validateFBXGroup") # 0
    /\ Len(reports) = 1
    /\ ~reports[1].isValid

-----------------------------------------------------------------------------
(* The loader *)

Carried(character, name) ==
    \E c \in DOMAIN character.animations : character.animations[c] = name

\* C28: loadCharacter rejects for every loaded asset without skinned mesh,
\* and playAnimation throws for every requested name that no clip of the
\* character carries, leaving the actions of the mixer as they were.
C28_LoaderRejects ==
    /\ NoMeshCase(fbx) =>
          /\ characters = << >>
          /\ call.op = "loadCharacter" => call.thrown
    /\ ( /\ call.op = "playAnimation"
         /\ ~Carried(characters[call.character], call.name) )
       => /\ call.thrown
          /\ characters[call.character].mixer = call.before

\* playAnimation has thrown for a name no clip carries, on a character whose
\* mixer plays an action.
C28_Witness ==
    /\ call.op = "playAnimation"
    /\ ~Carried(characters[call.character], call.name)
    /\ call.thrown
    /\ \E c \in DOMAIN call.before : call.before[c] # "none"

-----------------------------------------------------------------------------
(* The frame loop and the attack lock of RiggingTest *)

\* C26: no frame is rendered by a CharacterRenderer after its dispose() has
\* returned, whatever the order of effect runs, load completions, frames
\* and cleanups.
C26_NoFrameAfterDispose ==
    \A e \in DOMAIN renderers : ~renderers[e].renderedAfterDispose

SamePositions ==
    \A c \in DOMAIN characters :
        characters'[c].position = characters[c].position

\* C29: at most one attack timer is pending; while isAttacking holds no key
\* event sets a further timer and no frame moves a character; the timer that
\* fires leaves isAttacking FALSE, and every attack comes to that point.
C29_AttackLock ==
    /\ [](timers <= 1 /\ (isAttacking <=> timers = 1))
    /\ [][isAttacking => (timers' <= timers /\ SamePositions)]_vars
    /\ [][timers' < timers => ~isAttacking']_vars
    /\ (isAttacking ~> ~isAttacking)

\* An attack is running on a loaded character whose loop has rendered, with
\* a movement key held down.
C29_Witness ==
    /\ isAttacking
    /\ timers = 1
    /\ "w" \in keysPressed
    /\ \E e \in DOMAIN renderers : renderers[e].requested # {}
    /\ nextFrameId > 2

=============================================================================
